---------------------------- MODULE Spec2Model ----------------------------
(***************************************************************************)
(* Arsea: the system DNS configurator (daemon/dns-config.js) and the       *)
(* daemon lifecycle (daemon/index.js, daemon/process-manager.js).          *)
(*                                                                         *)
(* The operating system's resolver configuration of the managed interface  *)
(* is the record sys = [mode, static, lease]: mode "dhcp" uses the DNS     *)
(* servers of the DHCP lease, mode "static" the list set by netsh or       *)
(* networksetup.  A DNS value of the program (what getCurrentDNS returns,  *)
(* what the backup file stores) is a sequence of strings; JavaScript's     *)
(* null is the value Null and a missing backup file is NoFile.             *)
(*                                                                         *)
(* Every handler is one operator from the state before the call, and the   *)
(* set F of external commands that fail during the call, to                *)
(* the state after it and its result.                                      *)
(***************************************************************************)
EXTENDS Integers, Sequences, FiniteSets, TLC

\* ------------------------------------------------------------------ bounds

\* Longest resolver list of a DHCP lease or of a static configuration.
MaxServers == 2
\* Most kinds of external command that fail during one handler call.
MaxFaults == 2
\* The toggle requests made to the API server while it is followed await by
\* await.
MaxRequests == 2
\* Most labels of a queried name (besides the one name of MaxLoops labels).
MaxLabels == 3
\* Most write calls fs.writeFile needs to put one file's text on disk.
MaxChunks == 2
\* Most datagrams relayed to the client for one forwarded query.
MaxRelays == 2

\* --------------------------------------------------------------- constants

Loopback == "127.0.0.1"
PublicFallback == "8.8.8.8"
Null == <<"null">>
NoFile == <<"nofile">>
DHCP == <<"dhcp">>

\* Resolvers a DHCP lease names, in the order it names them.
LeasePool == <<"192.168.1.1", "192.168.1.2", "192.168.1.3", "192.168.1.4">>
\* Resolvers a user configured by hand, in order.
StaticPool == <<"1.1.1.1", "9.9.9.9", "1.0.0.1", "149.112.112.112">>

Prefixes(pool, lo) == {SubSeq(pool, 1, n) : n \in lo..MaxServers}

\* The lease's DNS option: none, one or more routers, or a resolver on the
\* host itself.
Leases == Prefixes(LeasePool, 0) \cup {<<Loopback>>}
\* A static list at start-up: set by the user, or left behind by a run of
\* the program that was killed after Configure.
Statics == Prefixes(StaticPool, 1) \cup {<<Loopback>>, <<Loopback, PublicFallback>>}

InitialSys ==
    {[mode |-> "dhcp", static |-> <<>>, lease |-> l] : l \in Leases}
    \cup {[mode |-> "static", static |-> s, lease |-> l] : s \in Statics, l \in Leases}

Platforms == {"win32", "darwin"}

\* The external commands and file operations of the Configurator.  During
\* one handler call each kind either works or fails (a timeout, a permission
\* error) every time it is issued:
\*   showDns     netsh interface ip show dns / networksetup -getdnsservers
\*   showConfig  netsh interface ip show config
\*   writeFile   fs.writeFile(backupFile)      readFile  fs.readFile(backupFile)
\*   setStatic   netsh ... set dns static / networksetup -setdnsservers <list>
\*   addDns      netsh ... add dns
\*   setDhcp     netsh ... set dns dhcp / networksetup -setdnsservers empty
Commands == {"showDns", "showConfig", "writeFile", "readFile",
             "setStatic", "addDns", "setDhcp"}
Faults == {F \in SUBSET Commands : Cardinality(F) <= MaxFaults}

VARIABLES
    platform,       \* os.platform()
    dryRun,         \* DNSConfigManager.dryRun / ArseaDaemon.dryRun
    sys,            \* the interface's resolver configuration in the OS
    backupFile,     \* originalDNS of dns-backup.json, or NoFile
    originalDNS,    \* DNSConfigManager.originalDNS
    isConfigured,   \* DNSConfigManager.isConfigured
    proxyAnswers,   \* whether a DNS proxy answers on 127.0.0.1
    hist            \* the last Configurator call: what it saw and returned

cfgVars == <<platform, dryRun, sys, backupFile, originalDNS, isConfigured,
             proxyAnswers, hist>>

VARIABLES
    pc,             \* where cliRunner (and daemon.initialize inside it) stands
    initResult,     \* how daemon.initialize ended: "pending", "ok", "false", "threw"
    errListener,    \* a listener for the daemon's 'error' event is registered
    pidFile,        \* arsea-daemon.pid: "none", "own", "other" (live), "stale"
    stateFile,      \* isBlocking of arsea-state.json: "none", "on", "off"
    pmDaemon,       \* processManager.daemon is set
    isShuttingDown, \* ProcessManager.isShuttingDown
    shutdownTimer,  \* the shutdown timeout is armed
    sd,             \* the await gracefulShutdown stands at
    pendingState,   \* the state saveState is writing: "none", "on", "off"
    sdLog,          \* what the shutdown has done so far, in order
    exited,         \* process.exit was called
    exitCode,       \* with this code
    isRunning,      \* ArseaDaemon.isRunning
    isBlocking,     \* ArseaDaemon.isBlocking
    proxyRunning,   \* ArseaDNSProxy.isRunning
    blocklist,      \* the loaded blocklist: "none", "file", "emergency"
    apiUp,          \* the API server listens
    bootLocal,      \* the resolvers pointed at loopback when the process started
    bootSys,        \* the interface's resolver configuration at that moment
    tog,            \* the last POST /toggle: its reply and the state it met
    req,            \* the POST /toggle requests followed await by await
    blockedDomains, \* ArseaDNSProxy.blockedDomains
    pkt,            \* the last datagram the proxy handled and what it did with it
    disk,           \* the bytes of the backup, PID and state files on disk
    io,             \* the fs.writeFile in progress and the last read of a file
    currentDNS,     \* what the integrity check read
    done            \* what this process has done to DNS and the proxy so far

lifeVars == <<pc, initResult, errListener, pidFile, stateFile, pmDaemon,
              isShuttingDown, shutdownTimer, sd, pendingState, sdLog, exited,
              exitCode, isRunning, isBlocking, proxyRunning, blocklist, apiUp,
              bootLocal, bootSys, tog, req, blockedDomains, pkt, disk, io,
              currentDNS, done>>

\* ------------------------------------------------- the OS resolver state

\* The resolver list the host resolves with.
Resolvers(s) == IF s.mode = "static" THEN s.static ELSE s.lease

LoopbackNames == {"127.0.0.1", "localhost", "127.0.0.53"}

isDNSPointingToLocalhost(dnsServers) ==
    /\ dnsServers # Null
    /\ \E i \in 1..Len(dnsServers) : dnsServers[i] \in LoopbackNames

LoopbackOnly(list) ==
    /\ list # <<>>
    /\ \A i \in 1..Len(list) : list[i] \in LoopbackNames

\* netsh interface ip set dns name=... static <ip> primary
NetshSetStatic(s, ip) == [s EXCEPT !.mode = "static", !.static = <<ip>>]
\* netsh interface ip add dns name=... addr=<ip> index=<n>
NetshAddDns(s, ip, index) ==
    [s EXCEPT !.static = SubSeq(@, 1, index - 1) \o <<ip>> \o SubSeq(@, index, Len(@))]
\* netsh interface ip set dns name=... dhcp
NetshSetDhcp(s) == [s EXCEPT !.mode = "dhcp", !.static = <<>>]
\* networksetup -setdnsservers <service> <ip>...
NetworksetupSet(s, list) == [s EXCEPT !.mode = "static", !.static = list]
\* networksetup -setdnsservers <service> empty
NetworksetupEmpty(s) == [s EXCEPT !.mode = "dhcp", !.static = <<>>]

\* The lines of `netsh interface ip show dns` (and the DNS lines of `show
\* config`): a header line with the first server or "None", one line per
\* further server, then the suffix line.
ContinuationLines(list) == [i \in 1..Len(list) |-> [kind |-> "cont", ip |-> list[i]]]

NetshShowDns(s) ==
    LET list == Resolvers(s)
        header == [kind |-> s.mode, ip |-> IF list = <<>> THEN "None" ELSE Head(list)]
        more == IF list = <<>> THEN <<>> ELSE ContinuationLines(Tail(list))
    IN  <<header>> \o more \o <<[kind |-> "suffix", ip |-> ""]>>

RECURSIVE ParseLines(_, _, _, _)
ParseLines(lines, i, dnsServers, inDnsSection) ==
    IF i > Len(lines)
    THEN IF dnsServers # <<>> THEN dnsServers ELSE DHCP
    ELSE LET line == lines[i] IN
         IF line.kind = "dhcp"
         THEN IF line.ip \notin {"None", "0.0.0.0"} THEN <<line.ip>> ELSE DHCP
         ELSE IF line.kind = "static"
         THEN ParseLines(lines, i + 1,
                         IF line.ip # "None" THEN Append(dnsServers, line.ip)
                                             ELSE dnsServers,
                         TRUE)
         ELSE IF inDnsSection /\ line.kind = "cont"
         THEN ParseLines(lines, i + 1, Append(dnsServers, line.ip), TRUE)
         ELSE ParseLines(lines, i + 1, dnsServers, FALSE)

parseWindowsDNS(configOutput) == ParseLines(configOutput, 1, <<>>, FALSE)

\* ------------------------------------------------------ DNSConfigManager

\* The Configurator's state: S = [sys, file, mem, conf].
getCurrentDNS(s, p, failed) ==
    IF failed THEN Null
    ELSE IF p = "win32" THEN parseWindowsDNS(NetshShowDns(s))
    ELSE IF s.mode = "static" /\ s.static # <<>> THEN s.static ELSE DHCP

getOriginalDNSWindows(s, failed) ==
    IF failed THEN DHCP
    ELSE LET lines == NetshShowDns(s)
             found == {i \in 1..Len(lines) : lines[i].kind = "dhcp"}
         IN  IF found # {} /\ lines[CHOOSE i \in found : \A j \in found : i <= j].ip
                              \notin {"None", "0.0.0.0"}
             THEN <<lines[CHOOSE i \in found : \A j \in found : i <= j].ip>>
             ELSE DHCP

restoreToAutomatic(S, p, failed) ==
    IF failed THEN [st |-> S, ok |-> FALSE]
    ELSE [st |-> [S EXCEPT !.sys = IF p = "win32" THEN NetshSetDhcp(@)
                                                 ELSE NetworksetupEmpty(@),
                           !.conf = FALSE],
          ok |-> TRUE]

backup_storeAsRead(S, p, F) ==
    LET read == getCurrentDNS(S.sys, p, "showDns" \in F)
        std == IF read = <<>> THEN DHCP ELSE read
    IN  IF "writeFile" \in F
        THEN [st |-> [S EXCEPT !.mem = Null], ok |-> FALSE]
        ELSE [st |-> [S EXCEPT !.mem = std, !.file = std], ok |-> TRUE]

backup(S, p, F) ==
    LET read == getCurrentDNS(S.sys, p, "showDns" \in F)
        adjusted == IF isDNSPointingToLocalhost(read)
                    THEN IF p = "win32"
                         THEN getOriginalDNSWindows(S.sys, "showConfig" \in F)
                         ELSE DHCP
                    ELSE read
        std == IF adjusted = <<>> THEN DHCP ELSE adjusted
    IN  IF "writeFile" \in F
        THEN [st |-> [S EXCEPT !.mem = Null], ok |-> FALSE]
        ELSE [st |-> [S EXCEPT !.mem = std, !.file = std], ok |-> TRUE]

\* The loop of restoreWindows: add dns addr=originalDNSArray[i] index=i for
\* i = 2, 3, ...
RECURSIVE AddRest(_, _, _)
AddRest(s, originalDNSArray, i) ==
    IF i > Len(originalDNSArray) THEN s
    ELSE AddRest(NetshAddDns(s, originalDNSArray[i], i), originalDNSArray, i + 1)

restoreWindows(S, originalDNSArray, F) ==
    IF \E i \in 1..Len(originalDNSArray) : originalDNSArray[i] = "dhcp"
    THEN IF "setDhcp" \in F THEN [st |-> S, ok |-> FALSE]
         ELSE [st |-> [S EXCEPT !.sys = NetshSetDhcp(@)], ok |-> TRUE]
    ELSE IF "setStatic" \in F THEN [st |-> S, ok |-> FALSE]
    ELSE LET first == [S EXCEPT !.sys = NetshSetStatic(@, originalDNSArray[1])]
         IN  IF Len(originalDNSArray) = 1 THEN [st |-> first, ok |-> TRUE]
             ELSE IF "addDns" \in F THEN [st |-> first, ok |-> FALSE]
             ELSE [st |-> [first EXCEPT !.sys = AddRest(@, originalDNSArray, 2)],
                   ok |-> TRUE]

restoreMacOS(S, originalDNSArray, F) ==
    IF \E i \in 1..Len(originalDNSArray) : originalDNSArray[i] = "dhcp"
    THEN IF "setDhcp" \in F THEN [st |-> S, ok |-> FALSE]
         ELSE [st |-> [S EXCEPT !.sys = NetworksetupEmpty(@)], ok |-> TRUE]
    ELSE IF "setStatic" \in F THEN [st |-> S, ok |-> FALSE]
    ELSE [st |-> [S EXCEPT !.sys = NetworksetupSet(@, originalDNSArray)], ok |-> TRUE]

\* A restore that consumes the backup: after a success the file is gone and
\* originalDNS is forgotten.
restore_consumesBackup(S, p, F) ==
    LET backupData == IF "readFile" \in F \/ S.file = NoFile THEN Null ELSE S.file
        dnsToRestore == IF backupData # Null THEN backupData ELSE S.mem
        first == IF dnsToRestore = Null \/ dnsToRestore = <<>> \/ dnsToRestore = DHCP
                 THEN restoreToAutomatic(S, p, "setDhcp" \in F)
                 ELSE IF p = "win32" THEN restoreWindows(S, dnsToRestore, F)
                 ELSE restoreMacOS(S, dnsToRestore, F)
    IN  IF first.ok
        THEN [st |-> [first.st EXCEPT !.conf = FALSE, !.file = NoFile, !.mem = Null],
              ok |-> TRUE]
        ELSE [st |-> restoreToAutomatic(first.st, p, "setDhcp" \in F).st, ok |-> FALSE]

restore(S, p, F) ==
    LET backupData == IF "readFile" \in F \/ S.file = NoFile THEN Null ELSE S.file
        dnsToRestore == IF backupData # Null THEN backupData ELSE S.mem
        first == IF dnsToRestore = Null \/ dnsToRestore = <<>> \/ dnsToRestore = DHCP
                 THEN restoreToAutomatic(S, p, "setDhcp" \in F)
                 ELSE IF p = "win32" THEN restoreWindows(S, dnsToRestore, F)
                 ELSE restoreMacOS(S, dnsToRestore, F)
    IN  IF first.ok
        THEN [st |-> [first.st EXCEPT !.conf = FALSE], ok |-> TRUE]
        ELSE [st |-> restoreToAutomatic(first.st, p, "setDhcp" \in F).st, ok |-> FALSE]

configureWindows(S, dnsServer, F) ==
    IF "setStatic" \in F THEN [st |-> S, ok |-> FALSE]
    ELSE LET primary == [S EXCEPT !.sys = NetshSetStatic(@, dnsServer)]
         IN  IF "addDns" \in F THEN [st |-> primary, ok |-> FALSE]
             ELSE [st |-> [primary EXCEPT !.sys = NetshAddDns(@, PublicFallback, 2)],
                   ok |-> TRUE]

configureMacOS(S, dnsServer, F) ==
    IF "setStatic" \in F THEN [st |-> S, ok |-> FALSE]
    ELSE [st |-> [S EXCEPT !.sys = NetworksetupSet(@, <<dnsServer, PublicFallback>>)],
          ok |-> TRUE]

\* testDNSServer: the probe query to 127.0.0.1 is answered within 5 s.
testDNSServer(answers) == answers

\* configure('127.0.0.1', port): result [st, ok, applied], applied saying
\* whether the platform reconfiguration step was entered.
configure_noProbe(S, p, dry, answers, F) ==
    IF dry THEN [st |-> S, ok |-> TRUE, applied |-> FALSE]
    ELSE LET b == backup(S, p, F) IN
         IF ~b.ok
         THEN [st |-> restore(b.st, p, F).st, ok |-> FALSE, applied |-> FALSE]
         ELSE LET c == IF p = "win32" THEN configureWindows(b.st, Loopback, F)
                                      ELSE configureMacOS(b.st, Loopback, F)
              IN  IF c.ok
                  THEN [st |-> [c.st EXCEPT !.conf = TRUE], ok |-> TRUE, applied |-> TRUE]
                  ELSE [st |-> restore(c.st, p, F).st, ok |-> FALSE, applied |-> TRUE]

configure(S, p, dry, answers, F) ==
    IF dry THEN [st |-> S, ok |-> TRUE, applied |-> FALSE]
    ELSE LET b == backup(S, p, F) IN
         IF ~b.ok \/ ~testDNSServer(answers)
         THEN [st |-> restore(b.st, p, F).st, ok |-> FALSE, applied |-> FALSE]
         ELSE LET c == IF p = "win32" THEN configureWindows(b.st, Loopback, F)
                                      ELSE configureMacOS(b.st, Loopback, F)
              IN  IF c.ok
                  THEN [st |-> [c.st EXCEPT !.conf = TRUE], ok |-> TRUE, applied |-> TRUE]
                  ELSE [st |-> restore(c.st, p, F).st, ok |-> FALSE, applied |-> TRUE]

\* The fields of a new DNSConfigManager.
constructor(S) == [S EXCEPT !.mem = Null, !.conf = FALSE]

\* DNSConfigManager.initialize: originalDNS is loaded from the backup file
\* when the file holds one.
initialize(S) ==
    [S EXCEPT !.mem = IF S.file \notin {NoFile, Null} THEN S.file ELSE @]

\* ----------------------------------------------------- Configurator calls

Cfg == [sys |-> sys, file |-> backupFile, mem |-> originalDNS, conf |-> isConfigured]

\* hist: the last call's name and result, whether the proxy answered and
\* whether the resolvers pointed at loopback when it was made, and, after a
\* Configure that installed the proxy, the resolver list it replaced.
NoHist == [op |-> "none", ok |-> TRUE, applied |-> FALSE, up |-> FALSE,
           wasLocal |-> FALSE, cfgFrom |-> Null]

Commit(S) ==
    /\ sys' = S.sys
    /\ backupFile' = S.file
    /\ originalDNS' = S.mem
    /\ isConfigured' = S.conf

Record(op, ok, applied, from) ==
    hist' = [op |-> op, ok |-> ok, applied |-> applied, up |-> proxyAnswers,
             wasLocal |-> isDNSPointingToLocalhost(Resolvers(sys)),
             cfgFrom |-> from]

BackupCommands == {"showDns", "showConfig", "writeFile"}
RestoreCommands == {"readFile", "setStatic", "addDns", "setDhcp"}

\* tog: no request made yet.  res is "none", "ok" (200) or "error" (500),
\* reported the isBlocking of the reply; was, proxyWas and sysWas are
\* isBlocking, the proxy's running state and the resolver configuration when
\* the request arrived.
NoToggle == [res |-> "none", was |-> FALSE, reported |-> FALSE,
             proxyWas |-> FALSE,
             sysWas |-> [mode |-> "dhcp", static |-> <<>>, lease |-> <<>>]]

\* pkt: no datagram handled yet.  query is the datagram, asked what the
\* client encoded in it, client who sent it.  outcome is "none", "ignored"
\* (the packet did not parse), "blocked", "forwarded" or "timedOut"; name
\* and type are what the proxy parsed; upstream is the message sent to the
\* upstream server, answer what that server sent back, and reply the
\* message sent to the client replyTo.
NoPacket == [query |-> <<>>, asked |-> [id |-> 0, labels |-> <<>>, type |-> 0],
             client |-> "", outcome |-> "none", name |-> <<>>, type |-> 0,
             server |-> "", upstream |-> <<>>, answer |-> <<>>,
             reply |-> <<>>, replyTo |-> "",
             stats |-> [queries |-> 0, blocked |-> 0, allowed |-> 0, errors |-> 0],
             socket |-> "none", timer |-> FALSE, relays |-> 0, pending |-> 0,
             threw |-> FALSE]

\* A toggle request: pc "idle" before it is made, then the await its
\* handler stands at, "replied" at the end; was is the wasBlocking it read.
\* The files the daemon writes with fs.writeFile: the DNS backup, the PID
\* file and the state file.  A file on disk holds the first `written` of the
\* `of` pieces of the JSON text of `data`.
FileNames == {"backup", "pid", "state"}
Absent == [exists |-> FALSE, data |-> <<>>, written |-> 0, of |-> 0]
NoDisk == [f \in FileNames |-> Absent]

\* io: no file written or read yet.  file is the file fs.writeFile was last
\* called for, old what the file held then and new the data to be written;
\* writing says that the call is still at work, crashed that the process
\* died during it; seen is what a later read of that file made of its bytes.
NoIo == [file |-> "none", writing |-> FALSE, old |-> Absent, new |-> <<>>,
         crashed |-> FALSE, seen |-> [text |-> "none", data |-> <<>>]]

Requests == 1..MaxRequests
IdleRequest == [pc |-> "idle", was |-> FALSE]
NoRequests == [r \in Requests |-> IdleRequest]

\* The Configurator used by itself: no daemon process around it.
NoDaemon ==
    /\ pc = "none" /\ initResult = "pending" /\ errListener = FALSE
    /\ pidFile = "none" /\ stateFile = "none" /\ pmDaemon = FALSE
    /\ isShuttingDown = FALSE /\ shutdownTimer = FALSE /\ sd = "idle"
    /\ pendingState = "none" /\ sdLog = <<>> /\ exited = FALSE /\ exitCode = 0
    /\ isRunning = FALSE /\ isBlocking = FALSE /\ proxyRunning = FALSE
    /\ blocklist = "none" /\ apiUp = FALSE
    /\ bootLocal = isDNSPointingToLocalhost(Resolvers(sys))
    /\ bootSys = sys /\ tog = NoToggle /\ req = NoRequests
    /\ blockedDomains = {} /\ pkt = NoPacket
    /\ disk = NoDisk /\ io = NoIo
    /\ currentDNS = Null /\ done = {}

CfgInit ==
    /\ platform \in Platforms
    /\ dryRun \in BOOLEAN
    /\ sys \in InitialSys
    /\ backupFile = NoFile
    /\ originalDNS = Null
    /\ isConfigured = FALSE
    /\ proxyAnswers \in BOOLEAN
    /\ hist = NoHist

Backup ==
    \E F \in Faults \cap SUBSET BackupCommands :
        LET r == backup(Cfg, platform, F) IN
        /\ Commit(r.st)
        /\ Record("backup", r.ok, FALSE, Null)
        /\ UNCHANGED <<platform, dryRun, proxyAnswers>>
        /\ UNCHANGED lifeVars

Configure ==
    \E F \in Faults :
        LET r == configure(Cfg, platform, dryRun, proxyAnswers, F) IN
        /\ Commit(r.st)
        /\ Record("configure", r.ok, r.applied,
                  IF r.ok /\ r.applied THEN Resolvers(sys) ELSE Null)
        /\ UNCHANGED <<platform, dryRun, proxyAnswers>>
        /\ UNCHANGED lifeVars

Restore ==
    \E F \in Faults \cap SUBSET RestoreCommands :
        LET r == restore(Cfg, platform, F) IN
        /\ Commit(r.st)
        /\ Record("restore", r.ok, FALSE, Null)
        /\ UNCHANGED <<platform, dryRun, proxyAnswers>>
        /\ UNCHANGED lifeVars

RestoreToAutomatic ==
    \E failed \in BOOLEAN :
        LET r == restoreToAutomatic(Cfg, platform, failed) IN
        /\ Commit(r.st)
        /\ Record("restoreToAutomatic", r.ok, FALSE, Null)
        /\ UNCHANGED <<platform, dryRun, proxyAnswers>>
        /\ UNCHANGED lifeVars

\* The process is killed and started again: a new DNSConfigManager.
Restart ==
    /\ Commit(initialize(constructor(Cfg)))
    /\ hist' = NoHist
    /\ UNCHANGED <<platform, dryRun, proxyAnswers>>
    /\ UNCHANGED lifeVars

\* The local proxy (or another local resolver) comes up or goes away.
ProxyChange ==
    /\ proxyAnswers' = ~proxyAnswers
    /\ UNCHANGED <<platform, dryRun, sys, backupFile, originalDNS, isConfigured, hist>>
    /\ UNCHANGED lifeVars

Init == CfgInit /\ NoDaemon

Next ==
    \/ Backup
    \/ Configure
    \/ Restore
    \/ RestoreToAutomatic
    \/ Restart
    \/ ProxyChange

vars == <<cfgVars, lifeVars>>

Spec == Init /\ [][Next]_vars

\* ------------------------------------------------ the Configurator on Linux
\*
\* A Linux machine whose resolver daemon is systemd-resolved.  sys has the
\* names of the files in /etc/systemd/resolved.conf.d (dropins), the DNS=
\* setting the daemon loaded at its last restart (global), the resolvers the
\* link got from DHCP (lease), and /etc/resolv.conf: whether it has the Arsea
\* section and its other nameserver lines (resolvConf).  The backup is a
\* record: kind "servers" (the list resolvectl printed), "resolvConf" (the
\* text of /etc/resolv.conf), "dhcp", or "none" (null, or no file).

LinuxValue(kind, servers) == [kind |-> kind, servers |-> servers]

\* systemctl restart systemd-resolved: the daemon reads its drop-ins, of
\* which arsea-dns.conf sets DNS=127.0.0.1 8.8.8.8 and Domains=~.
restartResolved(s) ==
    [s EXCEPT !.global = IF "arsea-dns.conf" \in s.dropins
                         THEN <<Loopback, PublicFallback>> ELSE <<>>]

\* The resolvers the machine's lookups go to.
LinuxResolvers(s) ==
    IF s.resolvConf.arsea THEN <<Loopback, PublicFallback, "1.1.1.1">>
    ELSE IF s.resolvConf.rest = <<"127.0.0.53">>
    THEN IF s.global # <<>> THEN s.global ELSE s.lease
    ELSE s.resolvConf.rest

\* The command kinds that can fail on Linux.
LinuxFaults ==
    {F \in SUBSET {"resolvectl", "unlink", "restart", "writeFile", "readFile"} :
        Cardinality(F) <= MaxFaults}

\* getCurrentDNS on Linux: the link's servers from resolvectl status, else
\* the text of /etc/resolv.conf.
getCurrentDNSLinux(s, F) ==
    IF "resolvectl" \notin F /\ s.lease # <<>> THEN LinuxValue("servers", s.lease)
    ELSE LinuxValue("resolvConf",
                    IF s.resolvConf.arsea
                    THEN <<Loopback, PublicFallback, "1.1.1.1">> \o s.resolvConf.rest
                    ELSE s.resolvConf.rest)

\* backup on Linux: a read that points at loopback is stored as 'dhcp'.
backupLinux(S, F) ==
    LET read == getCurrentDNSLinux(S.sys, F)
        adjusted == IF isDNSPointingToLocalhost(read.servers)
                    THEN LinuxValue("dhcp", <<>>) ELSE read
    IN  IF "writeFile" \in F
        THEN [st |-> [S EXCEPT !.mem = LinuxValue("none", <<>>)], ok |-> FALSE]
        ELSE [st |-> [S EXCEPT !.mem = adjusted, !.file = adjusted], ok |-> TRUE]

\* configureLinux: the drop-in arsea-dns.conf and a restart; when one of
\* them fails, the Arsea section at the head of /etc/resolv.conf.
configureLinux(S, dnsServer, F) ==
    IF "writeFile" \in F THEN [st |-> S, ok |-> FALSE]
    ELSE LET written == [S EXCEPT !.sys.dropins = @ \cup {"arsea-dns.conf"}] IN
         IF "restart" \notin F
         THEN [st |-> [written EXCEPT !.sys = restartResolved(@)], ok |-> TRUE]
         ELSE [st |-> [written EXCEPT !.sys.resolvConf.arsea = TRUE], ok |-> TRUE]

\* restoreToAutomatic on Linux: unlink arsea.conf and restart; any failure
\* of the two is logged and the call succeeds.
restoreToAutomaticLinux(S, F) ==
    LET removed == IF "arsea.conf" \in S.sys.dropins /\ "unlink" \notin F
                   THEN IF "restart" \in F
                        THEN [S EXCEPT !.sys.dropins = @ \ {"arsea.conf"}]
                        ELSE [S EXCEPT !.sys = restartResolved(
                                           [@ EXCEPT !.dropins = @ \ {"arsea.conf"}])]
                   ELSE S
    IN  [st |-> [removed EXCEPT !.conf = FALSE], ok |-> TRUE]

\* restoreLinux: unlink arsea-dns.conf and restart; when one of them fails,
\* /etc/resolv.conf is rewritten from a backup that holds its text.
restoreLinux(S, original, F) ==
    LET unlinked == "arsea-dns.conf" \in S.sys.dropins /\ "unlink" \notin F
        removed == IF unlinked THEN [S EXCEPT !.sys.dropins = @ \ {"arsea-dns.conf"}]
                   ELSE S
    IN  IF unlinked /\ "restart" \notin F
        THEN [st |-> [removed EXCEPT !.sys = restartResolved(@)], ok |-> TRUE]
        ELSE IF original.kind = "resolvConf" /\ original.servers # <<>>
        THEN IF "writeFile" \in F THEN [st |-> removed, ok |-> FALSE]
             ELSE [st |-> [removed EXCEPT !.sys.resolvConf =
                              [arsea |-> FALSE, rest |-> original.servers]],
                   ok |-> TRUE]
        ELSE [st |-> removed, ok |-> TRUE]

\* restore with platform linux.
restoreOnLinux(S, F) ==
    LET backupData == IF "readFile" \in F THEN LinuxValue("none", <<>>) ELSE S.file
        dnsToRestore == IF backupData.kind # "none" THEN backupData ELSE S.mem
        first == IF dnsToRestore.kind \in {"none", "dhcp"}
                 THEN restoreToAutomaticLinux(S, F)
                 ELSE restoreLinux(S, dnsToRestore, F)
    IN  IF first.ok
        THEN [st |-> [first.st EXCEPT !.conf = FALSE], ok |-> TRUE]
        ELSE [st |-> restoreToAutomaticLinux(first.st, F).st, ok |-> FALSE]

\* configure('127.0.0.1') with platform linux, outside dry-run.
configureOnLinux(S, answers, F) ==
    LET b == backupLinux(S, F) IN
    IF ~b.ok \/ ~testDNSServer(answers)
    THEN [st |-> restoreOnLinux(b.st, F).st, ok |-> FALSE, applied |-> FALSE]
    ELSE LET c == configureLinux(b.st, Loopback, F) IN
         IF c.ok
         THEN [st |-> [c.st EXCEPT !.conf = TRUE], ok |-> TRUE, applied |-> TRUE]
         ELSE [st |-> restoreOnLinux(c.st, F).st, ok |-> FALSE, applied |-> TRUE]

\* A machine Arsea has not touched: no drop-in of its own, the stub
\* resolver in /etc/resolv.conf, no backup.
LinuxInit ==
    /\ platform = "linux"
    /\ dryRun = FALSE
    /\ \E link \in Prefixes(LeasePool, 0) :
        sys = [mode |-> "dhcp", static |-> <<>>, lease |-> link,
               dropins |-> {}, global |-> <<>>,
               resolvConf |-> [arsea |-> FALSE, rest |-> <<"127.0.0.53">>]]
    /\ backupFile = LinuxValue("none", <<>>)
    /\ originalDNS = LinuxValue("none", <<>>)
    /\ isConfigured = FALSE
    /\ proxyAnswers \in BOOLEAN
    /\ hist = NoHist
    /\ NoDaemon

\* A call of the Configurator on Linux.  In hist, wasLocal says that the
\* lookups went to loopback and applied that the drop-in arsea-dns.conf was
\* in place when a Restore or a restore-to-automatic was called.
LinuxCall(op, r, applied) ==
    /\ Commit(r.st)
    /\ hist' = [op |-> op, ok |-> r.ok, applied |-> applied, up |-> proxyAnswers,
                wasLocal |-> isDNSPointingToLocalhost(LinuxResolvers(sys)),
                cfgFrom |-> Null]
    /\ UNCHANGED <<platform, dryRun, proxyAnswers>>
    /\ UNCHANGED lifeVars

LinuxConfigure ==
    \E F \in LinuxFaults :
        LinuxCall("configure", configureOnLinux(Cfg, proxyAnswers, F),
                  configureOnLinux(Cfg, proxyAnswers, F).applied)

LinuxRestore ==
    \E F \in LinuxFaults :
        LinuxCall("restore", restoreOnLinux(Cfg, F), "arsea-dns.conf" \in sys.dropins)

LinuxRestoreToAutomatic ==
    \E F \in LinuxFaults :
        LinuxCall("restoreToAutomatic", restoreToAutomaticLinux(Cfg, F),
                  "arsea-dns.conf" \in sys.dropins)

LinuxNext ==
    \/ LinuxConfigure
    \/ LinuxRestore
    \/ LinuxRestoreToAutomatic
    \/ ProxyChange

SpecLinux == LinuxInit /\ [][LinuxNext]_vars

\* ------------------------------------------------------ the daemon process

\* What the interface and the backup file look like when the daemon starts:
\* an untouched machine, or one a killed run left configured, with the
\* backup that run had taken.
BootStates ==
    {[sys |-> s, file |-> NoFile] :
        s \in {x \in InitialSys : x.mode = "dhcp" \/ x.lease = SubSeq(LeasePool, 1, 1)}}
    \cup {[sys |-> s, file |-> f] :
            s \in {x \in InitialSys : /\ x.mode = "static"
                                      /\ Head(x.static) = Loopback
                                      /\ x.lease = SubSeq(LeasePool, 1, 1)},
            f \in {DHCP, SubSeq(StaticPool, 1, 1)}}

\* In the lifecycle a call meets at most one failing kind of command: the
\* read of the resolvers, or one of the two commands that set them.
DaemonFaults == {{}} \cup {{c} : c \in {"showDns", "setStatic", "setDhcp"}}

\* testDNSResolution: the lookup of google.com through the OS resolvers
\* returns within 5 s.
testDNSResolution(s, networkUp) ==
    /\ networkUp
    /\ \E i \in 1..Len(Resolvers(s)) : Resolvers(s)[i] \notin LoopbackNames

OnOff(b) == IF b THEN "on" ELSE "off"

Did(events) == done' = done \cup events

\* A variant of gracefulShutdown without the isShuttingDown guard.
gracefulShutdown_unguarded ==
    /\ isShuttingDown' = TRUE
    /\ shutdownTimer' = TRUE
    /\ sd' = "saveState"
    /\ pendingState' = IF pmDaemon THEN OnOff(isBlocking) ELSE "none"

\* ProcessManager.gracefulShutdown up to its first await: the guard, the
\* flag, the timer, and the state saveState is about to write.
gracefulShutdown ==
    IF isShuttingDown
    THEN UNCHANGED <<isShuttingDown, shutdownTimer, sd, pendingState>>
    ELSE /\ isShuttingDown' = TRUE
         /\ shutdownTimer' = TRUE
         /\ sd' = "saveState"
         /\ pendingState' = IF pmDaemon THEN OnOff(isBlocking) ELSE "none"

\* ArseaDaemon.shutdown: the proxy is stopped if it runs, then
\* dnsConfig.restore(), then the flags.
shutdown(F) ==
    /\ Commit(restore(Cfg, platform, F).st)
    /\ proxyRunning' = FALSE
    /\ proxyAnswers' = FALSE
    /\ isRunning' = FALSE
    /\ isBlocking' = FALSE
    /\ Did({"restore"})

\* The catch of daemon.initialize up to its first await.  With a listener
\* for 'error' the error is emitted and this.shutdown() is called.  Without
\* one, emit('error', error) throws the error: initialize rejects, and the
\* catch of cliRunner() calls gracefulShutdown('CLI_RUNNER_ERROR').
initializeCatch ==
    IF errListener
    THEN /\ pc' = "initializeCatch"
         /\ UNCHANGED <<initResult, isShuttingDown, shutdownTimer, sd, pendingState>>
    ELSE /\ pc' = "returned"
         /\ initResult' = "threw"
         /\ gracefulShutdown

DaemonInit ==
    /\ platform \in Platforms
    /\ dryRun \in BOOLEAN
    /\ \E b \in BootStates : sys = b.sys /\ backupFile = b.file
    /\ originalDNS = Null
    /\ isConfigured = FALSE
    /\ proxyAnswers = FALSE
    /\ hist = NoHist
    /\ pc = "checkInstance" /\ initResult = "pending"
    /\ errListener \in BOOLEAN
    /\ pidFile \in {"none", "stale", "other"}
    /\ stateFile \in {"none", "on"}
    /\ pmDaemon = FALSE
    /\ isShuttingDown = FALSE /\ shutdownTimer = FALSE /\ sd = "idle"
    /\ pendingState = "none" /\ sdLog = <<>> /\ exited = FALSE /\ exitCode = 0
    /\ isRunning = FALSE /\ isBlocking = FALSE /\ proxyRunning = FALSE
    /\ blocklist = "none" /\ apiUp = FALSE
    /\ bootLocal = isDNSPointingToLocalhost(Resolvers(sys))
    /\ bootSys = sys /\ tog = NoToggle /\ req = NoRequests
    /\ blockedDomains = {} /\ pkt = NoPacket
    /\ disk = NoDisk /\ io = NoIo
    /\ currentDNS = Null /\ done = {}

sdVars == <<isShuttingDown, shutdownTimer, sd, pendingState, sdLog>>
exitVars == <<exited, exitCode>>
daemonVars == <<isRunning, isBlocking, proxyRunning, blocklist, apiUp>>
fixedVars == <<platform, dryRun, hist, errListener, bootLocal, bootSys, req,
               blockedDomains, pkt, disk, io>>

\* cliRunner, step 1: checkExistingInstance and the exit when one runs.  A
\* stale PID file is removed.  When process.kill(pid, 0) on a live process
\* throws anything but ESRCH (EPERM: the process belongs to another user),
\* checkExistingInstance reports { running: false, error }.
CheckExistingInstance ==
    /\ pc = "checkInstance" /\ ~exited
    /\ \E eperm \in BOOLEAN :
        IF pidFile = "other" /\ ~eperm
        THEN /\ exited' = TRUE /\ exitCode' = 1
             /\ UNCHANGED <<pc, pidFile>>
        ELSE /\ pc' = "dnsConfigInitialize"
             /\ pidFile' = IF pidFile = "stale" THEN "none" ELSE pidFile
             /\ UNCHANGED exitVars
    /\ UNCHANGED <<sys, backupFile, originalDNS, isConfigured, proxyAnswers,
                   initResult, stateFile, pmDaemon, currentDNS, done>>
    /\ UNCHANGED <<tog, fixedVars, sdVars, daemonVars>>

\* daemon.initialize: this.dnsConfig.initialize().
DnsConfigInitialize ==
    /\ pc = "dnsConfigInitialize" /\ ~exited
    /\ Commit(initialize(Cfg))
    /\ pc' = "checkDNSIntegrity"
    /\ UNCHANGED <<proxyAnswers, initResult, pidFile, stateFile, pmDaemon,
                   currentDNS, done>>
    /\ UNCHANGED <<tog, fixedVars, sdVars, exitVars, daemonVars>>

\* checkDNSIntegrity: the read of the current resolvers and the test for
\* loopback.
CheckDNSIntegrity ==
    /\ pc = "checkDNSIntegrity" /\ ~exited
    /\ \E failed \in BOOLEAN :
        /\ currentDNS' = getCurrentDNS(sys, platform, failed)
        /\ pc' = IF isDNSPointingToLocalhost(currentDNS')
                 THEN "restoreToAutomatic" ELSE "loadBlocklist"
    /\ UNCHANGED <<sys, backupFile, originalDNS, isConfigured, proxyAnswers,
                   initResult, pidFile, stateFile, pmDaemon, done>>
    /\ UNCHANGED <<tog, fixedVars, sdVars, exitVars, daemonVars>>

\* A variant of the check that lets loopback resolvers pass.
IntegrityRestore_skipped ==
    /\ pc = "restoreToAutomatic" /\ ~exited
    /\ pc' = "loadBlocklist"
    /\ UNCHANGED <<sys, backupFile, originalDNS, isConfigured, proxyAnswers,
                   initResult, pidFile, stateFile, pmDaemon, currentDNS, done>>
    /\ UNCHANGED <<tog, fixedVars, sdVars, exitVars, daemonVars>>

\* checkDNSIntegrity: restoreToAutomatic when the read showed loopback.
IntegrityRestore ==
    /\ pc = "restoreToAutomatic" /\ ~exited
    /\ \E failed \in BOOLEAN :
        LET r == restoreToAutomatic(Cfg, platform, failed) IN
        /\ Commit(r.st)
        /\ IF r.ok
           THEN /\ pc' = "testDNSResolution"
                /\ Did({"restoreToAutomatic"})
                /\ UNCHANGED <<initResult, isShuttingDown, shutdownTimer, sd,
                               pendingState>>
           ELSE initializeCatch /\ Did({"integrityFailed"})
    /\ UNCHANGED <<proxyAnswers, pidFile, stateFile, pmDaemon, currentDNS, sdLog>>
    /\ UNCHANGED <<tog, fixedVars, exitVars, daemonVars>>

\* checkDNSIntegrity: the 3 s wait and testDNSResolution.
IntegrityVerify ==
    /\ pc = "testDNSResolution" /\ ~exited
    /\ \E networkUp \in BOOLEAN :
        IF testDNSResolution(sys, networkUp)
        THEN /\ pc' = "loadBlocklist"
             /\ Did({"verified"})
             /\ UNCHANGED <<initResult, isShuttingDown, shutdownTimer, sd,
                            pendingState>>
        ELSE initializeCatch /\ Did({"integrityFailed"})
    /\ UNCHANGED <<sys, backupFile, originalDNS, isConfigured, proxyAnswers,
                   pidFile, stateFile, pmDaemon, currentDNS, sdLog>>
    /\ UNCHANGED <<tog, fixedVars, exitVars, daemonVars>>

\* checkSystemPermissions (which changes nothing) and loadBlocklist: the
\* list of domains.json, or the emergency list when that cannot be loaded.
LoadBlocklist ==
    /\ pc = "loadBlocklist" /\ ~exited
    /\ \E loaded \in BOOLEAN :
        blocklist' = IF loaded THEN "file" ELSE "emergency"
    /\ pc' = "createEmergencyBackup"
    /\ UNCHANGED <<sys, backupFile, originalDNS, isConfigured, proxyAnswers,
                   initResult, pidFile, stateFile, pmDaemon, currentDNS, done>>
    /\ UNCHANGED <<tog, fixedVars, sdVars, exitVars>>
    /\ UNCHANGED <<isRunning, isBlocking, proxyRunning, apiUp>>

\* createEmergencyBackup, then isRunning = true and return true.
CreateEmergencyBackup ==
    /\ pc = "createEmergencyBackup" /\ ~exited
    /\ IF originalDNS = Null \/ backupFile = NoFile
       THEN \E F \in DaemonFaults \cap SUBSET BackupCommands :
                Commit(backup(Cfg, platform, F).st) /\ Did({"backup"})
       ELSE UNCHANGED <<sys, backupFile, originalDNS, isConfigured, done>>
    /\ isRunning' = TRUE
    /\ initResult' = "ok"
    /\ pc' = "processManagerInitialize"
    /\ UNCHANGED <<proxyAnswers, pidFile, stateFile, pmDaemon, currentDNS>>
    /\ UNCHANGED <<tog, fixedVars, sdVars, exitVars>>
    /\ UNCHANGED <<isBlocking, proxyRunning, blocklist, apiUp>>

\* The rest of the catch with a listener: this.shutdown() has restored DNS,
\* initialize returns false, and cliRunner calls
\* gracefulShutdown('INITIALIZATION_FAILURE') and returns.
InitializeCatchShutdown ==
    /\ pc = "initializeCatch" /\ ~exited
    /\ \E F \in DaemonFaults \cap SUBSET RestoreCommands : shutdown(F)
    /\ initResult' = "false"
    /\ gracefulShutdown
    /\ pc' = "returned"
    /\ UNCHANGED <<pidFile, stateFile, pmDaemon, currentDNS, sdLog>>
    /\ UNCHANGED <<tog, fixedVars, exitVars, blocklist, apiUp>>

\* cliRunner, step 3: processManager.initialize(daemon, apiServer), with
\* apiServer still null: the PID file, then loadState.
ProcessManagerInitialize ==
    /\ pc = "processManagerInitialize" /\ ~exited
    /\ pmDaemon' = TRUE
    /\ pidFile' = "own"
    /\ isBlocking' = IF stateFile = "none" THEN isBlocking ELSE stateFile = "on"
    /\ pc' = "startAPIServer"
    /\ UNCHANGED <<sys, backupFile, originalDNS, isConfigured, proxyAnswers,
                   initResult, stateFile, currentDNS, done>>
    /\ UNCHANGED <<tog, fixedVars, sdVars, exitVars>>
    /\ UNCHANGED <<isRunning, proxyRunning, blocklist, apiUp>>

\* cliRunner: the second dnsConfig.initialize(), the display of the current
\* resolvers, and startAPIServer unless this is a dry run without --enable
\* or --disable.
StartAPIServer ==
    /\ pc = "startAPIServer" /\ ~exited
    /\ Commit(initialize(Cfg))
    /\ \E started \in BOOLEAN, enableOrDisableCli \in BOOLEAN :
        apiUp' = (started /\ (~dryRun \/ enableOrDisableCli))
    /\ pc' = "returned"
    /\ UNCHANGED <<proxyAnswers, initResult, pidFile, stateFile, pmDaemon,
                   currentDNS, done>>
    /\ UNCHANGED <<tog, fixedVars, sdVars, exitVars>>
    /\ UNCHANGED <<isRunning, isBlocking, proxyRunning, blocklist>>

\* The reply of POST /toggle, with the state the request met.
Reply(res, reported) ==
    tog' = [res |-> res, was |-> isBlocking, reported |-> reported,
            proxyWas |-> proxyRunning, sysWas |-> sys]

\* POST /toggle: removeBlocking when the daemon is blocking, else
\* isBlocking = true and applyBlocking.  The daemon's DNSConfigManager is
\* built without the dryRun option (new DNSConfigManager(options
\* .dnsConfigOptions || {})), so its configure never takes the dry-run
\* return; in dry-run the daemon returns before it calls the Configurator.
Toggle ==
    /\ apiUp /\ ~exited
    /\ \E F \in DaemonFaults, startOk \in BOOLEAN, answers \in BOOLEAN :
        IF isBlocking
        THEN IF dryRun
             THEN /\ Reply("ok", isBlocking)
                  /\ UNCHANGED <<sys, backupFile, originalDNS, isConfigured,
                                 proxyAnswers, isBlocking, proxyRunning, done>>
             ELSE /\ Commit(restore(Cfg, platform, F).st)
                  /\ proxyRunning' = FALSE
                  /\ proxyAnswers' = FALSE
                  /\ isBlocking' = FALSE
                  /\ Did({"restore"})
                  /\ Reply("ok", FALSE)
        ELSE IF dryRun
             THEN /\ isBlocking' = TRUE
                  /\ Reply("ok", TRUE)
                  /\ UNCHANGED <<sys, backupFile, originalDNS, isConfigured,
                                 proxyAnswers, proxyRunning, done>>
             ELSE LET early == originalDNS = Null /\ backupFile = NoFile
                      b == IF early THEN backup(Cfg, platform, F).st ELSE Cfg
                  IN  IF proxyRunning \/ startOk
                      THEN /\ Commit(configure(b, platform, FALSE, answers, F).st)
                           /\ proxyRunning' = TRUE
                           /\ proxyAnswers' = TRUE
                           /\ isBlocking' = TRUE
                           /\ Did({"backup", "proxyStart", "configure"})
                           /\ Reply("ok", TRUE)
                      ELSE /\ Commit(restore(b, platform, F).st)
                           /\ isBlocking' = FALSE
                           /\ Did(IF early THEN {"backup", "restore"} ELSE {"restore"})
                           /\ Reply("error", FALSE)
                           /\ UNCHANGED <<proxyRunning, proxyAnswers>>
    /\ UNCHANGED <<pc, initResult, pidFile, stateFile, pmDaemon, currentDNS>>
    /\ UNCHANGED <<fixedVars, sdVars, exitVars, isRunning, blocklist, apiUp>>

\* SIGINT, SIGTERM, SIGBREAK, an uncaught exception or an unhandled
\* rejection: the handler calls gracefulShutdown.
Signal ==
    /\ ~exited
    /\ gracefulShutdown
    /\ UNCHANGED <<sys, backupFile, originalDNS, isConfigured, proxyAnswers,
                   pc, initResult, pidFile, stateFile, pmDaemon, currentDNS,
                   done, sdLog>>
    /\ UNCHANGED <<tog, fixedVars, exitVars, daemonVars>>

\* gracefulShutdown, step 1: saveState has written the state file (or has
\* failed to, or had no daemon to save); the API server is skipped because
\* processManager.apiServer is null; then daemon.shutdown() is called if
\* the process manager holds the daemon.
SaveState ==
    /\ sd = "saveState" /\ ~exited
    /\ \E failed \in BOOLEAN :
        stateFile' = IF pendingState # "none" /\ ~failed THEN pendingState
                                                         ELSE stateFile
    /\ sdLog' = IF pendingState # "none" THEN Append(sdLog, "saveState") ELSE sdLog
    /\ sd' = IF pmDaemon THEN "daemonShutdown" ELSE "removePidFile"
    /\ UNCHANGED <<sys, backupFile, originalDNS, isConfigured, proxyAnswers,
                   pc, initResult, pidFile, pmDaemon, currentDNS, done>>
    /\ UNCHANGED <<isShuttingDown, shutdownTimer, pendingState>>
    /\ UNCHANGED <<tog, fixedVars, exitVars, daemonVars>>

\* A variant of step 3 that restores DNS before it stops the proxy.
DaemonShutdown_restoreFirst ==
    /\ sd = "daemonShutdown" /\ ~exited
    /\ \E F \in DaemonFaults \cap SUBSET RestoreCommands : shutdown(F)
    /\ sdLog' = sdLog \o <<"restore">> \o
                    (IF proxyRunning THEN <<"stopProxy">> ELSE <<>>)
    /\ sd' = "removePidFile"
    /\ UNCHANGED <<pc, initResult, pidFile, stateFile, pmDaemon, currentDNS>>
    /\ UNCHANGED <<isShuttingDown, shutdownTimer, pendingState>>
    /\ UNCHANGED <<tog, fixedVars, exitVars, blocklist, apiUp>>

\* gracefulShutdown, step 3: daemon.shutdown() has stopped the proxy and
\* restored DNS.
DaemonShutdown ==
    /\ sd = "daemonShutdown" /\ ~exited
    /\ \E F \in DaemonFaults \cap SUBSET RestoreCommands : shutdown(F)
    /\ sdLog' = sdLog \o (IF proxyRunning THEN <<"stopProxy">> ELSE <<>>)
                      \o <<"restore">>
    /\ sd' = "removePidFile"
    /\ UNCHANGED <<pc, initResult, pidFile, stateFile, pmDaemon, currentDNS>>
    /\ UNCHANGED <<isShuttingDown, shutdownTimer, pendingState>>
    /\ UNCHANGED <<tog, fixedVars, exitVars, blocklist, apiUp>>

\* gracefulShutdown, steps 4 and 5: removePidFile, clearTimeout and
\* process.exit(0).
RemovePidFile ==
    /\ sd = "removePidFile" /\ ~exited
    /\ pidFile' = "none"
    /\ shutdownTimer' = FALSE
    /\ sdLog' = sdLog \o <<"removePidFile", "exit">>
    /\ sd' = "exited"
    /\ exited' = TRUE /\ exitCode' = 0
    /\ UNCHANGED <<sys, backupFile, originalDNS, isConfigured, proxyAnswers,
                   pc, initResult, stateFile, pmDaemon, currentDNS, done>>
    /\ UNCHANGED <<isShuttingDown, pendingState>>
    /\ UNCHANGED <<tog, fixedVars, daemonVars>>

\* The shutdown timer fires before gracefulShutdown has finished.
ShutdownTimeout ==
    /\ shutdownTimer /\ ~exited
    /\ exited' = TRUE /\ exitCode' = 1
    /\ sdLog' = Append(sdLog, "forceExit")
    /\ UNCHANGED <<sys, backupFile, originalDNS, isConfigured, proxyAnswers,
                   pc, initResult, pidFile, stateFile, pmDaemon, currentDNS, done>>
    /\ UNCHANGED <<isShuttingDown, shutdownTimer, sd, pendingState>>
    /\ UNCHANGED <<tog, fixedVars, daemonVars>>

DaemonNext ==
    \/ CheckExistingInstance
    \/ DnsConfigInitialize
    \/ CheckDNSIntegrity
    \/ IntegrityRestore
    \/ IntegrityVerify
    \/ LoadBlocklist
    \/ CreateEmergencyBackup
    \/ InitializeCatchShutdown
    \/ ProcessManagerInitialize
    \/ StartAPIServer
    \/ Toggle
    \/ Signal
    \/ SaveState
    \/ DaemonShutdown
    \/ RemovePidFile
    \/ ShutdownTimeout

SpecDaemon == DaemonInit /\ [][DaemonNext]_vars

\* ------------------------------------- concurrent requests and shutdown
\*
\* SpecDaemon handles one toggle at a time, in one step.  Here the handler
\* of POST /toggle and ArseaDaemon.shutdown are followed await by await, so
\* that requests overlap each other and the shutdown.  A call of the
\* Configurator is in flight from the step that makes it to the step where
\* it returns; its effect on the interface is taken at its return.

\* The daemon after an undisturbed start: resolvers that do not point at
\* loopback, the emergency backup taken, the API server listening.
ToggleInit ==
    /\ platform \in Platforms
    /\ dryRun = FALSE
    /\ \E b \in BootStates :
        /\ b.file = NoFile
        /\ ~isDNSPointingToLocalhost(Resolvers(b.sys))
        /\ sys = b.sys
        /\ LET S == backup([sys |-> b.sys, file |-> NoFile, mem |-> Null,
                            conf |-> FALSE], platform, {}).st
           IN  backupFile = S.file /\ originalDNS = S.mem
    /\ isConfigured = FALSE
    /\ proxyAnswers = FALSE
    /\ hist = NoHist
    /\ pc = "returned" /\ initResult = "ok"
    /\ errListener = FALSE
    /\ pidFile = "own"
    /\ stateFile \in {"none", "on"}
    /\ pmDaemon = TRUE
    /\ isShuttingDown = FALSE /\ shutdownTimer = FALSE /\ sd = "idle"
    /\ pendingState = "none" /\ sdLog = <<>> /\ exited = FALSE /\ exitCode = 0
    /\ isRunning = TRUE /\ isBlocking = (stateFile = "on") /\ proxyRunning = FALSE
    /\ blocklist = "file" /\ apiUp = TRUE
    /\ bootLocal = FALSE
    /\ bootSys = sys /\ tog = NoToggle /\ req = NoRequests
    /\ blockedDomains = {} /\ pkt = NoPacket
    /\ disk = NoDisk /\ io = NoIo
    /\ currentDNS = getCurrentDNS(sys, platform, FALSE) /\ done = {"backup"}

\* The Configurator calls in flight: the configure and restore calls of
\* the toggle handlers and the restore of ArseaDaemon.shutdown.
InFlight ==
    Cardinality({r \in Requests : req[r].pc \in {"configure", "restore", "rollback"}})
    + (IF sd = "restore" THEN 1 ELSE 0)

\* The requests between their arrival and their reply.
Handling == {r \in Requests : req[r].pc \notin {"idle", "replied"}}

At(r, where) == req' = [req EXCEPT ![r].pc = where]

toggleFrame ==
    /\ UNCHANGED <<platform, dryRun, hist, errListener, bootLocal, bootSys, tog>>
    /\ UNCHANGED <<blockedDomains, pkt, disk, io>>
    /\ UNCHANGED <<pc, initResult, pidFile, stateFile, pmDaemon, currentDNS>>
    /\ UNCHANGED <<sdVars, exitVars, isRunning, blocklist, apiUp>>

\* POST /toggle up to its first await: wasBlocking is read; to disable,
\* removeBlocking calls dnsProxy.stop(); to enable, isBlocking is set and
\* applyBlocking calls dnsProxy.start() (the daemon holds a backup, so it
\* takes none here).
ToggleArrive(r) ==
    /\ apiUp /\ ~exited
    /\ req[r].pc = "idle"
    /\ req' = [req EXCEPT ![r] = [pc |-> IF isBlocking THEN "stopProxy" ELSE "startProxy",
                                  was |-> isBlocking]]
    /\ isBlocking' = TRUE
    /\ UNCHANGED <<sys, backupFile, originalDNS, isConfigured, proxyAnswers,
                   proxyRunning, done>>
    /\ toggleFrame

\* removeBlocking: dnsProxy.stop() has returned; dnsConfig.restore() is
\* called.
ToggleProxyStopped(r) ==
    /\ ~exited
    /\ req[r].pc = "stopProxy"
    /\ proxyRunning' = FALSE
    /\ proxyAnswers' = FALSE
    /\ At(r, "restore")
    /\ UNCHANGED <<sys, backupFile, originalDNS, isConfigured, isBlocking, done>>
    /\ toggleFrame

\* removeBlocking: dnsConfig.restore() has returned; isBlocking = false and
\* the reply.
ToggleRestored(r) ==
    /\ ~exited
    /\ req[r].pc = "restore"
    /\ \E F \in DaemonFaults \cap SUBSET RestoreCommands :
        Commit(restore(Cfg, platform, F).st)
    /\ isBlocking' = FALSE
    /\ Did({"restore"})
    /\ At(r, "replied")
    /\ UNCHANGED <<proxyAnswers, proxyRunning>>
    /\ toggleFrame

\* applyBlocking: dnsProxy.start() has returned.  With the proxy running,
\* configureDNSWithGuidance calls dnsConfig.configure; else the catch sets
\* isBlocking = false and calls dnsConfig.restore().
ToggleProxyStarted(r) ==
    /\ ~exited
    /\ req[r].pc = "startProxy"
    /\ \E startOk \in BOOLEAN :
        IF proxyRunning \/ startOk
        THEN /\ proxyRunning' = TRUE
             /\ proxyAnswers' = TRUE
             /\ Did({"proxyStart"})
             /\ At(r, "configure")
             /\ UNCHANGED isBlocking
        ELSE /\ isBlocking' = FALSE
             /\ At(r, "rollback")
             /\ UNCHANGED <<proxyRunning, proxyAnswers, done>>
    /\ UNCHANGED <<sys, backupFile, originalDNS, isConfigured>>
    /\ toggleFrame

\* applyBlocking: dnsConfig.configure has returned (its failure is only
\* logged); the reply carries the isBlocking of that moment.
ToggleConfigured(r) ==
    /\ ~exited
    /\ req[r].pc = "configure"
    /\ \E F \in DaemonFaults :
        Commit(configure(Cfg, platform, FALSE, proxyAnswers, F).st)
    /\ Did({"configure"})
    /\ At(r, "replied")
    /\ UNCHANGED <<proxyAnswers, proxyRunning, isBlocking>>
    /\ toggleFrame

\* applyBlocking: the restore of the catch has returned; the error is
\* thrown on and the reply is 500.
ToggleRolledBack(r) ==
    /\ ~exited
    /\ req[r].pc = "rollback"
    /\ \E F \in DaemonFaults \cap SUBSET RestoreCommands :
        Commit(restore(Cfg, platform, F).st)
    /\ Did({"restore"})
    /\ At(r, "replied")
    /\ UNCHANGED <<proxyAnswers, proxyRunning, isBlocking>>
    /\ toggleFrame

\* ArseaDaemon.shutdown: dnsProxy.stop() has returned (or the proxy did not
\* run); dnsConfig.restore() is called.
ShutdownProxyStopped ==
    /\ sd = "daemonShutdown" /\ ~exited
    /\ proxyRunning' = FALSE
    /\ proxyAnswers' = FALSE
    /\ sdLog' = sdLog \o (IF proxyRunning THEN <<"stopProxy">> ELSE <<>>)
    /\ sd' = "restore"
    /\ UNCHANGED <<sys, backupFile, originalDNS, isConfigured, done>>
    /\ UNCHANGED <<pc, initResult, pidFile, stateFile, pmDaemon, currentDNS>>
    /\ UNCHANGED <<isShuttingDown, shutdownTimer, pendingState>>
    /\ UNCHANGED <<tog, fixedVars, exitVars, isRunning, isBlocking, blocklist, apiUp>>

\* ArseaDaemon.shutdown: dnsConfig.restore() has returned; the flags.
ShutdownRestored ==
    /\ sd = "restore" /\ ~exited
    /\ \E F \in DaemonFaults \cap SUBSET RestoreCommands :
        Commit(restore(Cfg, platform, F).st)
    /\ isRunning' = FALSE
    /\ isBlocking' = FALSE
    /\ Did({"restore"})
    /\ sdLog' = Append(sdLog, "restore")
    /\ sd' = "removePidFile"
    /\ UNCHANGED <<proxyAnswers, proxyRunning>>
    /\ UNCHANGED <<pc, initResult, pidFile, stateFile, pmDaemon, currentDNS>>
    /\ UNCHANGED <<isShuttingDown, shutdownTimer, pendingState>>
    /\ UNCHANGED <<tog, fixedVars, exitVars, blocklist, apiUp>>

ToggleNext ==
    \/ \E r \in Requests : ToggleArrive(r)
    \/ \E r \in Requests : ToggleProxyStopped(r)
    \/ \E r \in Requests : ToggleRestored(r)
    \/ \E r \in Requests : ToggleProxyStarted(r)
    \/ \E r \in Requests : ToggleConfigured(r)
    \/ \E r \in Requests : ToggleRolledBack(r)
    \/ Signal
    \/ SaveState
    \/ ShutdownProxyStopped
    \/ ShutdownRestored
    \/ RemovePidFile
    \/ ShutdownTimeout

SpecToggle == ToggleInit /\ [][ToggleNext]_vars

\* ------------------------------------------------------- the DNS proxy
\*
\* A string is the sequence of its character codes and a Buffer the sequence
\* of its bytes; offsets are the zero-based offsets of the code.

\* parseName gives up after this many labels.
MaxLoops == 20

readUInt8(buffer, offset) == buffer[offset + 1]
readUInt16BE(buffer, offset) == buffer[offset + 1] * 256 + buffer[offset + 2]
readUInt32BE(buffer, offset) ==
    readUInt16BE(buffer, offset) * 65536 + readUInt16BE(buffer, offset + 2)
writeUInt16BE(value) == <<(value \div 256) % 256, value % 256>>
writeUInt32BE(value) == writeUInt16BE(value \div 65536) \o writeUInt16BE(value % 65536)

toLowerCase(str) ==
    [i \in 1..Len(str) |-> IF str[i] \in 65..90 THEN str[i] + 32 ELSE str[i]]

Whitespace == {9, 10, 11, 12, 13, 32}

RECURSIVE trim(_)
trim(str) ==
    IF str = <<>> THEN str
    ELSE IF Head(str) \in Whitespace THEN trim(Tail(str))
    ELSE IF str[Len(str)] \in Whitespace THEN trim(SubSeq(str, 1, Len(str) - 1))
    ELSE str

\* labels.join('.')
RECURSIVE join(_)
join(labels) ==
    IF labels = <<>> THEN <<>>
    ELSE IF Len(labels) = 1 THEN labels[1]
    ELSE labels[1] \o <<46>> \o join(Tail(labels))

\* str.split('.')
RECURSIVE split(_)
split(str) ==
    LET dots == {i \in 1..Len(str) : str[i] = 46} IN
    IF dots = {} THEN <<str>>
    ELSE LET d == CHOOSE i \in dots : \A j \in dots : i <= j
         IN  <<SubSeq(str, 1, d - 1)>> \o split(SubSeq(str, d + 1, Len(str)))

\* parseInt of a decimal string.
RECURSIVE parseInt(_)
parseInt(str) ==
    IF str = <<>> THEN 0
    ELSE parseInt(SubSeq(str, 1, Len(str) - 1)) * 10 + (str[Len(str)] - 48)

\* The loop of parseName, with maxLoops iterations left.  Result: ok FALSE
\* when it throws, else the name and the offset behind it.
RECURSIVE parseNameLoop(_, _, _, _, _, _)
parseNameLoop(buffer, offset, labels, jumped, jumpOffset, maxLoops) ==
    IF maxLoops = 0
    THEN [ok |-> TRUE, name |-> toLowerCase(join(labels)),
          offset |-> IF jumped THEN jumpOffset ELSE offset]
    ELSE IF offset >= Len(buffer)
    THEN [ok |-> FALSE, name |-> <<>>, offset |-> 0]
    ELSE LET length == readUInt8(buffer, offset) IN
         IF length = 0
         THEN [ok |-> TRUE, name |-> toLowerCase(join(labels)),
               offset |-> IF jumped THEN jumpOffset ELSE offset + 1]
         ELSE IF length >= 192
         THEN IF offset + 1 >= Len(buffer)
              THEN [ok |-> FALSE, name |-> <<>>, offset |-> 0]
              ELSE parseNameLoop(buffer,
                                 (length - 192) * 256 + readUInt8(buffer, offset + 1),
                                 labels, TRUE,
                                 IF jumped THEN jumpOffset ELSE offset + 2,
                                 maxLoops - 1)
         ELSE IF offset + 1 + length > Len(buffer)
         THEN [ok |-> FALSE, name |-> <<>>, offset |-> 0]
         ELSE parseNameLoop(buffer, offset + 1 + length,
                            Append(labels, SubSeq(buffer, offset + 2, offset + 1 + length)),
                            jumped, jumpOffset, maxLoops - 1)

parseName(buffer, offset) ==
    parseNameLoop(buffer, offset, <<>>, FALSE, offset, MaxLoops)

\* SimpleDNSPacket.parse: ok FALSE stands for the null it returns when the
\* packet is too short or the name does not parse.
NoQuery == [ok |-> FALSE, id |-> 0, rd |-> FALSE, name |-> <<>>, type |-> 0, class |-> 0]

parse(buffer) ==
    IF Len(buffer) < 12 \/ Len(buffer) < 12 + 5 THEN NoQuery
    ELSE LET question == parseName(buffer, 12) IN
         IF ~question.ok \/ Len(buffer) < question.offset + 4 THEN NoQuery
         ELSE [ok |-> TRUE,
               id |-> readUInt16BE(buffer, 0),
               rd |-> (readUInt16BE(buffer, 2) \div 256) % 2 = 1,
               name |-> question.name,
               type |-> readUInt16BE(buffer, question.offset),
               class |-> readUInt16BE(buffer, question.offset + 2)]

\* The loop of writeName: empty labels are skipped.
RECURSIVE writeLabels(_)
writeLabels(labels) ==
    IF labels = <<>> THEN <<0>>
    ELSE IF Len(Head(labels)) > 0
    THEN <<Len(Head(labels)) % 256>> \o Head(labels) \o writeLabels(Tail(labels))
    ELSE writeLabels(Tail(labels))

writeName(name) == writeLabels(split(name))

\* SimpleDNSPacket.buildResponse: ok FALSE when the response does not fit
\* the 512 bytes allocated for it and a write throws.  The four bytes of
\* the address are stored by index, which writes nothing behind the end of
\* the buffer and does not throw, and slice cuts at the end of the buffer.
buildResponse(query, blockedIP) ==
    LET ipParts == split(blockedIP)
        response ==
            writeUInt16BE(query.id) \o writeUInt16BE(33152)
            \o writeUInt16BE(1) \o writeUInt16BE(1)
            \o writeUInt16BE(0) \o writeUInt16BE(0)
            \o writeName(query.name)
            \o writeUInt16BE(query.type) \o writeUInt16BE(query.class)
            \o writeName(query.name)
            \o writeUInt16BE(1) \o writeUInt16BE(1) \o writeUInt32BE(300)
            \o writeUInt16BE(4)
            \o [i \in 1..4 |-> parseInt(ipParts[i]) % 256]
    IN  IF Len(response) - 4 > 512 THEN [ok |-> FALSE, bytes |-> <<>>]
        ELSE IF Len(response) > 512
        THEN [ok |-> TRUE, bytes |-> SubSeq(response, 1, 512)]
        ELSE [ok |-> TRUE, bytes |-> response]

\* '127.0.0.1'
BlockedIP == <<49, 50, 55, 46, 48, 46, 48, 46, 49>>

\* ArseaDNSProxy.loadBlocklist: each domain in lower case and trimmed, and
\* its www. variant.
loadBlocklist(domains) ==
    UNION {{trim(toLowerCase(d)), <<119, 119, 119, 46>> \o trim(toLowerCase(d))} :
              d \in {x \in domains : trim(toLowerCase(x)) # <<>>}}

isBlocked(domain) ==
    IF domain = <<>> THEN FALSE
    ELSE LET cleanDomain == toLowerCase(domain)
             parts == split(cleanDomain)
         IN  \/ cleanDomain \in blockedDomains
             \/ \E i \in 0..(Len(parts) - 2) :
                    join(SubSeq(parts, i + 1, Len(parts))) \in blockedDomains

\* ['8.8.8.8', '8.8.4.4']
upstreamDNS == {"8.8.8.8", "8.8.4.4"}

\* The labels of the names the clients ask for: b, c, www and B.
LabelPool == {<<98>>, <<99>>, <<119, 119, 119>>, <<66>>}

\* a.a. ... .a.b.c with MaxLoops labels.
LongName ==
    [i \in 1..MaxLoops |-> IF i = MaxLoops THEN <<99>>
                           ELSE IF i = MaxLoops - 1 THEN <<98>> ELSE <<97>>]

Names == UNION {[1..n -> LabelPool] : n \in 1..MaxLabels} \cup {LongName}

\* A, AAAA and MX.
QueryTypes == {1, 28, 15}
QueryIds == {4660, 65535}

\* The query a stub resolver sends: RD set, one question, class IN.
encodeQuery(id, labels, type) ==
    writeUInt16BE(id) \o <<1, 0>> \o writeUInt16BE(1)
    \o writeUInt16BE(0) \o writeUInt16BE(0) \o writeUInt16BE(0)
    \o writeLabels(labels) \o writeUInt16BE(type) \o writeUInt16BE(1)

Asked == [id : QueryIds, labels : Names, type : QueryTypes]

\* A datagram with a header and nothing else.
Malformed == <<0, 1, 1, 0, 0, 1, 0, 0, 0, 0, 0, 0>>

\* Datagrams that are no query: one shorter than the header; the header
\* alone; a label whose length runs past the buffer; a compression pointer
\* to an offset behind the buffer; a pointer cut off by the end of the
\* buffer; and MaxLoops labels followed by a label whose length runs past
\* the buffer.
MalformedDatagrams ==
    LET header == <<18, 52, 1, 0, 0, 1, 0, 0, 0, 0, 0, 0>>
        labels == writeLabels(LongName)
    IN  {<<18, 52, 1, 0>>,
         Malformed,
         header \o <<9, 98, 99, 0, 1, 0, 1>>,
         header \o <<192, 200, 0, 1, 0, 1>>,
         header \o <<1, 98, 1, 98, 192>>,
         header \o SubSeq(labels, 1, Len(labels) - 1) \o <<9, 98, 0, 1>>}

\* Question names that do not end: a compression pointer to itself; the
\* labels b and c followed by a pointer back to the first of them; and a
\* chain of MaxLoops + 1 pointers, each to the next, before the label b.
PointerLoopDatagrams ==
    LET header == <<18, 52, 1, 0, 0, 1, 0, 0, 0, 0, 0, 0>>
        RECURSIVE chain(_, _)
        chain(offset, hops) ==
            IF hops = 0 THEN <<1, 98, 0>>
            ELSE <<192, offset + 2>> \o chain(offset + 2, hops - 1)
    IN  {header \o <<192, 12, 0, 1, 0, 1>>,
         header \o <<1, 98, 1, 99, 192, 12, 0, 1, 0, 1>>,
         header \o <<192, 18, 0, 1, 0, 1>> \o chain(18, MaxLoops)}

Clients == {"10.0.0.2:5353", "10.0.0.3:5353"}

\* The entries of the array in domains.json: the strings "b.c", "c",
\* " C.B ", "  " and "-b.c", and a number.
EntryPool ==
    {[string |-> TRUE, text |-> <<98, 46, 99>>],
     [string |-> TRUE, text |-> <<99>>],
     [string |-> TRUE, text |-> <<32, 67, 46, 66, 32>>],
     [string |-> TRUE, text |-> <<32, 32>>],
     [string |-> TRUE, text |-> <<45, 98, 46, 99>>],
     [string |-> FALSE, text |-> <<55>>]}

\* What the blocklist file holds: no file, a file of size 0, one of more
\* than 100 MB, text that is no JSON, JSON that is no array, or an array.
BlocklistFiles ==
    {[kind |-> k, entries |-> {}] :
        k \in {"missing", "empty", "oversized", "invalidJson", "notArray"}}
    \cup {[kind |-> "array", entries |-> e] : e \in SUBSET EntryPool}

\* What an upstream server sends back: the query with QR and RA set and one
\* more byte, or a datagram of two bytes.
UpstreamAnswers(message) ==
    {[i \in 1..(Len(message) + 1) |->
         IF i = 3 THEN 129 ELSE IF i = 4 THEN 128
         ELSE IF i > Len(message) THEN 0 ELSE message[i]],
     <<0, 0>>}

\* forwardQuery, up to the send to the upstream server: the forward socket
\* is created with its listeners and the 5 s timer is armed.  counted is
\* what handleDNSQuery has added to this.stats for the datagram.
forwardQuery(message, asked, client, query, counted) ==
    \E server \in upstreamDNS :
        pkt' = [NoPacket EXCEPT !.query = message, !.asked = asked,
                                !.client = client, !.outcome = "forwarded",
                                !.name = query.name, !.type = query.type,
                                !.server = server, !.upstream = message,
                                !.stats = counted,
                                !.socket = "open", !.timer = TRUE]

\* sendBlockedResponse: the response is built and sent to the client; an
\* error of buildResponse is logged and nothing is sent.
sendBlockedResponse(message, asked, client, query, counted) ==
    LET response == buildResponse(query, BlockedIP) IN
    pkt' = [NoPacket EXCEPT !.query = message, !.asked = asked,
                            !.client = client, !.outcome = "blocked",
                            !.name = query.name, !.type = query.type,
                            !.stats = counted,
                            !.reply = response.bytes,
                            !.replyTo = IF response.ok THEN client ELSE ""]

\* handleDNSQuery: stats.queries++ first; a datagram that does not parse is
\* ignored with a return, another type than A and AAAA is forwarded at
\* once; stats.blocked++ or stats.allowed++ for A and AAAA.  stats.errors++
\* stands in the catch, which nothing in the try reaches: parse and
\* sendBlockedResponse catch their own errors.
handleDNSQuery(message, asked, client) ==
    LET query == parse(message)
        counted == [NoPacket.stats EXCEPT !.queries = 1]
    IN
    IF ~query.ok
    THEN pkt' = [NoPacket EXCEPT !.query = message, !.asked = asked,
                                 !.client = client, !.outcome = "ignored",
                                 !.stats = counted]
    ELSE IF query.type # 1 /\ query.type # 28
    THEN forwardQuery(message, asked, client, query, counted)
    ELSE IF isBlocked(query.name)
    THEN sendBlockedResponse(message, asked, client, query,
                             [counted EXCEPT !.blocked = 1])
    ELSE forwardQuery(message, asked, client, query,
                      [counted EXCEPT !.allowed = 1])

\* isValidDomain: labels of 1..63 characters of [a-z0-9-] in either case,
\* none beginning or ending with a hyphen, fewer than 255 characters in all.
isValidDomain(domain) ==
    LET labels == split(domain) IN
    /\ Len(domain) > 0 /\ Len(domain) < 255
    /\ \A i \in 1..Len(labels) :
        LET label == labels[i] IN
        /\ Len(label) \in 1..63
        /\ \A j \in 1..Len(label) :
               label[j] \in (48..57) \cup (97..122) \cup (65..90) \cup {45}
        /\ label[1] # 45 /\ label[Len(label)] # 45

\* loadFromJsonWithValidation without its check that a valid entry is left.
loadFromJsonWithValidation_anyArray(file) ==
    IF file.kind # "array" \/ file.entries = {}
    THEN [success |-> FALSE, domains |-> {}]
    ELSE [success |-> TRUE,
          domains |-> {trim(toLowerCase(e.text)) :
                          e \in {x \in file.entries :
                                    /\ x.string /\ Len(trim(x.text)) > 0
                                    /\ isValidDomain(trim(toLowerCase(x.text)))}}]

\* ArseaDaemon.loadFromJsonWithValidation: the valid entries of the array,
\* lower-cased and trimmed; a failure for any file that has none.
loadFromJsonWithValidation(file) ==
    IF file.kind # "array" \/ file.entries = {}
    THEN [success |-> FALSE, domains |-> {}]
    ELSE LET validDomains ==
                 {trim(toLowerCase(e.text)) :
                     e \in {x \in file.entries :
                               /\ x.string /\ Len(trim(x.text)) > 0
                               /\ isValidDomain(trim(toLowerCase(x.text)))}}
         IN  IF validDomains = {} THEN [success |-> FALSE, domains |-> {}]
             ELSE [success |-> TRUE, domains |-> validDomains]

\* 'example-blocked.com' and 'test-emergency.net'
createEmergencyBlocklist ==
    {<<101, 120, 97, 109, 112, 108, 101, 45, 98, 108, 111, 99, 107, 101, 100, 46, 99, 111, 109>>,
     <<116, 101, 115, 116, 45, 101, 109, 101, 114, 103, 101, 110, 99, 121, 46, 110, 101, 116>>}

\* ArseaDaemon.loadBlocklist: the source of the list and the domains handed
\* to dnsProxy.loadBlocklist.
daemonLoadBlocklist(file) ==
    LET loadResult == loadFromJsonWithValidation(file) IN
    IF loadResult.success
    THEN [source |-> "file", domains |-> loadResult.domains]
    ELSE [source |-> "emergency", domains |-> createEmergencyBlocklist]

proxyFrame ==
    /\ UNCHANGED cfgVars
    /\ UNCHANGED <<pc, initResult, errListener, pidFile, stateFile, pmDaemon,
                   isShuttingDown, shutdownTimer, sd, pendingState, sdLog,
                   exited, exitCode, isRunning, isBlocking, proxyRunning,
                   blocklist, apiUp, bootLocal, bootSys, tog, req, disk, io,
                   currentDNS, done>>

\* The proxy before it has loaded a blocklist; nothing else of the daemon
\* takes part.
ProxyInit ==
    /\ platform = "win32"
    /\ dryRun = FALSE
    /\ sys = [mode |-> "dhcp", static |-> <<>>, lease |-> <<>>]
    /\ backupFile = NoFile
    /\ originalDNS = Null
    /\ isConfigured = FALSE
    /\ proxyAnswers = FALSE
    /\ hist = NoHist
    /\ NoDaemon

\* ArseaDaemon.loadBlocklist: the daemon reads domains.json while it
\* initializes, before the proxy serves, and hands the domains (or the
\* emergency list) to dnsProxy.loadBlocklist.
ProxyLoadBlocklist ==
    /\ pkt = NoPacket
    /\ \E file \in BlocklistFiles :
        LET loaded == daemonLoadBlocklist(file) IN
        /\ blockedDomains' = loadBlocklist(loaded.domains)
        /\ blocklist' = loaded.source
    /\ UNCHANGED pkt
    /\ UNCHANGED cfgVars
    /\ UNCHANGED <<pc, initResult, errListener, pidFile, stateFile, pmDaemon,
                   isShuttingDown, shutdownTimer, sd, pendingState, sdLog,
                   exited, exitCode, isRunning, isBlocking, proxyRunning,
                   apiUp, bootLocal, bootSys, tog, req, disk, io, currentDNS, done>>

\* ArseaDNSProxy.start: tryStartOnPort binds port 53 or 5353 and attaches
\* the message handler, then isRunning = true; or no port can be bound and
\* start fails.
ProxyStart ==
    /\ ~proxyRunning
    /\ \E bound \in BOOLEAN : proxyRunning' = bound
    /\ UNCHANGED <<blockedDomains, pkt>>
    /\ UNCHANGED cfgVars
    /\ UNCHANGED <<pc, initResult, errListener, pidFile, stateFile, pmDaemon,
                   isShuttingDown, shutdownTimer, sd, pendingState, sdLog,
                   exited, exitCode, isRunning, isBlocking, blocklist,
                   apiUp, bootLocal, bootSys, tog, req, disk, io, currentDNS, done>>

\* server.on('message'): a client's query, or a datagram that is no query.
HandleDNSQuery ==
    /\ proxyRunning
    /\ pkt = NoPacket
    /\ \/ \E asked \in Asked, client \in Clients :
            handleDNSQuery(encodeQuery(asked.id, asked.labels, asked.type), asked, client)
       \/ \E message \in MalformedDatagrams \cup PointerLoopDatagrams,
               client \in Clients :
            handleDNSQuery(message, NoPacket.asked, client)
    /\ UNCHANGED blockedDomains
    /\ proxyFrame

\* forwardSocket.on('message'): the upstream's response is sent to the
\* client of the query.
UpstreamReply ==
    /\ pkt.outcome = "forwarded" /\ pkt.answer = <<>>
    /\ \E response \in UpstreamAnswers(pkt.upstream) :
        pkt' = [pkt EXCEPT !.answer = response, !.reply = response,
                           !.replyTo = pkt.client, !.relays = 1,
                           !.timer = FALSE, !.socket = "closed"]
    /\ UNCHANGED blockedDomains
    /\ proxyFrame

\* The 5 s timer of forwardQuery closes the socket: no response is relayed.
ForwardTimeout ==
    /\ pkt.outcome = "forwarded" /\ pkt.answer = <<>>
    /\ pkt' = [pkt EXCEPT !.outcome = "timedOut", !.timer = FALSE,
                           !.socket = "closed"]
    /\ UNCHANGED blockedDomains
    /\ proxyFrame

\* The datagram is dealt with and its forward socket, if it had one, is
\* closed; pkt follows the next one.
NextDatagram ==
    /\ pkt.outcome # "none" /\ pkt.socket # "open"
    /\ pkt' = NoPacket
    /\ UNCHANGED blockedDomains
    /\ proxyFrame

ProxyNext ==
    \/ ProxyLoadBlocklist
    \/ ProxyStart
    \/ HandleDNSQuery
    \/ UpstreamReply
    \/ ForwardTimeout
    \/ NextDatagram

SpecProxy == ProxyInit /\ [][ProxyNext]_vars

\* ------------------------------------------- the forward sockets and stop()
\*
\* SpecProxy relays the first upstream response in one step.  Here the
\* forward socket of a query is followed event by event (its 'message' and
\* 'error' events, its timer, the callback of the relay send) while the
\* proxy is started and stopped.

\* A name of 253 octets, the longest a domain name can be: three labels of
\* 63 a, one of 57 a, then b and c.
FullName ==
    [i \in 1..6 |-> IF i = 6 THEN <<99>>
                    ELSE IF i = 5 THEN <<98>>
                    ELSE [j \in 1..(IF i = 4 THEN 57 ELSE 63) |-> 97]]

\* The queries followed: A, AAAA and MX for b.c and for the name of 253
\* octets.
ForwardSamples ==
    [id : {4660}, labels : {<<<<98>>, <<99>>>>, FullName}, type : QueryTypes]

\* ArseaDNSProxy.stop, with the callback of server.close: the listener is
\* closed and isRunning = false.  Forward sockets and their timers are not
\* touched.  When the proxy is not running stop returns success at once.
ProxyStop ==
    /\ proxyRunning
    /\ proxyRunning' = FALSE
    /\ UNCHANGED <<blockedDomains, pkt>>
    /\ UNCHANGED cfgVars
    /\ UNCHANGED <<pc, initResult, errListener, pidFile, stateFile, pmDaemon,
                   isShuttingDown, shutdownTimer, sd, pendingState, sdLog,
                   exited, exitCode, isRunning, isBlocking, blocklist,
                   apiUp, bootLocal, bootSys, tog, req, disk, io, currentDNS, done>>

\* server.on('message') for one of the queries followed, or for a datagram
\* that is only a header.
ReceiveDatagram ==
    /\ proxyRunning
    /\ pkt = NoPacket
    /\ \/ \E asked \in ForwardSamples, client \in Clients :
            handleDNSQuery(encodeQuery(asked.id, asked.labels, asked.type), asked, client)
       \/ \E client \in Clients :
            handleDNSQuery(Malformed, NoPacket.asked, client)
    /\ UNCHANGED blockedDomains
    /\ proxyFrame

\* forwardSocket.on('message'): clearTimeout, then this.server.send of the
\* response to the client, whose callback will call cleanup.  The listener
\* stays attached until cleanup.  On a closed server socket send throws
\* ERR_SOCKET_DGRAM_NOT_RUNNING out of the handler: no callback, no cleanup.
UpstreamMessage ==
    /\ pkt.socket = "open"
    /\ pkt.relays < MaxRelays
    /\ \E response \in UpstreamAnswers(pkt.upstream) :
        pkt' = IF proxyRunning
               THEN [pkt EXCEPT !.timer = FALSE, !.answer = response,
                                !.reply = response, !.replyTo = pkt.client,
                                !.relays = @ + 1, !.pending = @ + 1]
               ELSE [pkt EXCEPT !.timer = FALSE, !.threw = TRUE]
    /\ UNCHANGED blockedDomains
    /\ proxyFrame

\* The callback of the relay send: cleanup removes the listeners and closes
\* the forward socket (a second close is caught).
RelaySent ==
    /\ pkt.pending > 0
    /\ pkt' = [pkt EXCEPT !.pending = @ - 1, !.socket = "closed"]
    /\ UNCHANGED blockedDomains
    /\ proxyFrame

\* The 5 s timer fires: cleanup; nothing is sent to the client.
ForwardTimer ==
    /\ pkt.timer
    /\ pkt' = [pkt EXCEPT !.outcome = "timedOut", !.timer = FALSE,
                           !.socket = "closed"]
    /\ UNCHANGED blockedDomains
    /\ proxyFrame

\* forwardSocket.on('error'), or the callback of the send to the upstream
\* server with an error: clearTimeout and cleanup.
ForwardSocketError ==
    /\ pkt.socket = "open"
    /\ pkt' = [pkt EXCEPT !.timer = FALSE, !.socket = "closed"]
    /\ UNCHANGED blockedDomains
    /\ proxyFrame

ForwardNext ==
    \/ ProxyLoadBlocklist
    \/ ProxyStart
    \/ ProxyStop
    \/ ReceiveDatagram
    \/ UpstreamMessage
    \/ RelaySent
    \/ ForwardTimer
    \/ ForwardSocketError
    \/ NextDatagram

SpecForward == ProxyInit /\ [][ForwardNext]_vars

\* The timer fires unless it is cleared, and the callback of a send is
\* called.
SpecForwardFair ==
    SpecForward /\ WF_vars(ForwardTimer) /\ WF_vars(RelaySent)

\* ------------------------------------------------- the files on disk
\*
\* backup(), writePidFile() and saveState() each end in
\* fs.writeFile(path, JSON.stringify(...)): the file is opened with flag
\* 'w', which creates or truncates it, the text is written with one or more
\* write calls, and the file is closed.  The process can die between any two
\* of these steps; the file keeps what it holds.

\* What the daemon writes into each file.
FileContents(f) ==
    IF f = "backup" THEN {DHCP, SubSeq(StaticPool, 1, 1)}
    ELSE IF f = "pid" THEN {<<"pid", "own">>}
    ELSE {<<"isBlocking", "true">>, <<"isBlocking", "false">>}

\* fs.readFile followed by JSON.parse.
readJSON(file) ==
    IF ~file.exists THEN [text |-> "ENOENT", data |-> <<>>]
    ELSE IF file.written < file.of THEN [text |-> "SyntaxError", data |-> <<>>]
    ELSE [text |-> "json", data |-> file.data]

filesFrame ==
    /\ UNCHANGED cfgVars
    /\ UNCHANGED <<pc, initResult, errListener, pidFile, stateFile, pmDaemon,
                   isShuttingDown, shutdownTimer, sd, pendingState, sdLog,
                   exited, exitCode, isRunning, isBlocking, proxyRunning,
                   blocklist, apiUp, bootLocal, bootSys, tog, req,
                   blockedDomains, pkt, currentDNS, done>>

\* fs.writeFile opens the file: it exists and is empty.
WriteFileOpen ==
    /\ ~io.writing
    /\ \E f \in FileNames : \E data \in FileContents(f), n \in 1..MaxChunks :
        /\ disk' = [disk EXCEPT ![f] = [exists |-> TRUE, data |-> data,
                                        written |-> 0, of |-> n]]
        /\ io' = [NoIo EXCEPT !.file = f, !.writing = TRUE, !.old = disk[f],
                              !.new = data]
    /\ filesFrame

\* One write call has put the next piece of the text into the file.
WriteFileWrite ==
    /\ io.writing
    /\ disk[io.file].written < disk[io.file].of
    /\ disk' = [disk EXCEPT ![io.file].written = @ + 1]
    /\ UNCHANGED io
    /\ filesFrame

\* The text is written; the file is closed and the promise resolves.
WriteFileClose ==
    /\ io.writing
    /\ disk[io.file].written = disk[io.file].of
    /\ io' = [io EXCEPT !.writing = FALSE]
    /\ UNCHANGED disk
    /\ filesFrame

\* The process dies while fs.writeFile is at work.
Crash ==
    /\ io.writing
    /\ io' = [io EXCEPT !.writing = FALSE, !.crashed = TRUE]
    /\ UNCHANGED disk
    /\ filesFrame

\* A later process reads the file: restore() and initialize() the backup,
\* checkExistingInstance() the PID file, loadState() the state file.
ReadFile ==
    /\ io.file # "none" /\ ~io.writing
    /\ io' = [io EXCEPT !.seen = readJSON(disk[io.file])]
    /\ UNCHANGED disk
    /\ filesFrame

FilesNext ==
    \/ WriteFileOpen
    \/ WriteFileWrite
    \/ WriteFileClose
    \/ Crash
    \/ ReadFile

SpecFiles == ProxyInit /\ [][FilesNext]_vars

\* ------------------------------------------------ claims: the Configurator

\* C1: for every resolver configuration R that does not point at loopback,
\* a Configure('127.0.0.1') that installed the proxy followed by a
\* successful Restore leaves the interface's resolver list equal to R.
C1_ConfigureRestoreRoundTrip ==
    [][(/\ hist.op = "configure" /\ hist.ok /\ hist.applied
        /\ ~isDNSPointingToLocalhost(hist.cfgFrom)
        /\ hist'.op = "restore" /\ hist'.ok)
       => Resolvers(sys') = hist.cfgFrom]_vars

\* C2: after a Configure or a Restore has returned, with success or with an
\* error, from resolvers that did not point at loopback (on a network whose
\* DHCP lease names no loopback resolver), the resolver list does not
\* consist of loopback only; and a Configure that succeeded left 127.0.0.1
\* followed by 8.8.8.8.
C2_NeverLoopbackOnly ==
    /\ (hist.op \in {"configure", "restore"} /\ ~hist.wasLocal
            /\ ~isDNSPointingToLocalhost(sys.lease))
           => ~LoopbackOnly(Resolvers(sys))
    /\ (hist.op = "configure" /\ hist.ok /\ hist.applied)
           => Resolvers(sys) = <<Loopback, PublicFallback>>

\* C3: when a backup that does not point at loopback is on disk and Backup
\* runs (by itself or as the first step of Configure) while the resolvers
\* point at loopback, the backup on disk is the same afterwards.
C3_GoodBackupKept ==
    [][(/\ backupFile \notin {NoFile, Null}
        /\ ~isDNSPointingToLocalhost(backupFile)
        /\ isDNSPointingToLocalhost(Resolvers(sys))
        /\ hist'.op \in {"backup", "configure"})
       => backupFile' = backupFile]_vars

C5_NoAnswerNoReconfiguration ==
    (hist.op = "configure" /\ ~dryRun /\ ~hist.up) =>
        /\ ~hist.ok
        /\ ~hist.applied
        /\ (sys.mode = "static" /\ isDNSPointingToLocalhost(sys.static))
               => hist.wasLocal

\* A Configure was refused because the proxy did not answer.
C5_Witness ==
    /\ hist.op = "configure" /\ ~dryRun /\ ~hist.up
    /\ ~hist.ok /\ ~hist.wasLocal

\* C22: calling Restore twice in succession, each platform command meeting
\* the same outcome in both calls, leaves the resolver configuration, the
\* backup file and the configured flag the same as calling it once, and the
\* second call returns the same result as the first.
C22_RestoreIdempotent ==
    \A F \in Faults \cap SUBSET RestoreCommands :
        LET once == restore(Cfg, platform, F)
            twice == restore(once.st, platform, F)
        IN  /\ twice.st.sys = once.st.sys
            /\ twice.st.file = once.st.file
            /\ twice.st.conf = once.st.conf
            /\ twice.ok = once.ok

\* A Restore has put a static resolver list back from the backup file, and
\* a second Restore changes nothing and succeeds as well.
C22_Witness ==
    /\ hist.op = "restore" /\ hist.ok
    /\ backupFile \notin {NoFile, Null, DHCP}
    /\ sys.mode = "static" /\ sys.static = backupFile
    /\ restore(Cfg, platform, {}) = [st |-> Cfg, ok |-> TRUE]

\* C25: on Linux, after Configure has installed the resolver-daemon
\* drop-in, both restore-to-automatic and Restore with a "dhcp" backup
\* delete that same drop-in file and restart the resolver daemon, so that
\* afterwards the resolvers no longer point at loopback.
C25_LinuxRestoreRemovesDropIn ==
    (/\ hist.applied /\ hist.ok
     /\ \/ hist.op = "restoreToAutomatic"
        \/ hist.op = "restore" /\ backupFile.kind = "dhcp") =>
        /\ "arsea-dns.conf" \notin sys.dropins
        /\ sys.global = <<>>
        /\ ~isDNSPointingToLocalhost(LinuxResolvers(sys))

\* ------------------------------------------------ claims: the daemon process

C7_IntegrityFailureExits3 ==
    ("integrityFailed" \in done /\ exited) =>
        /\ ~proxyRunning
        /\ done \cap {"proxyStart", "configure"} = {}
        /\ exitCode = 3

\* C8: when daemon initialization has failed (returned false or thrown), a
\* Restore of system DNS has been invoked.
C8_FailedInitRestores ==
    initResult \in {"false", "threw"} => "restore" \in done

C10_ForcedExitAfterRestore ==
    (exited /\ sdLog # <<>> /\ sdLog[Len(sdLog)] = "forceExit") =>
        /\ exitCode # 0
        /\ \E i \in 1..Len(sdLog) : sdLog[i] = "restore"

\* C11: when the PID file names a live process, a second start exits with
\* code 2 at the instance check, before the Configurator is initialized, and
\* has made no backup, reconfiguration or restore of system DNS.
C11_SecondStartExits2 ==
    (pidFile = "other" /\ pc = "checkInstance" /\ exited /\ sd = "idle") =>
        /\ exitCode = 2
        /\ done = {}
        /\ originalDNS = Null /\ backupFile \in {b.file : b \in BootStates}

\* C12: after a toggle request has returned an error, isBlocking, the
\* proxy's running state and the system resolver list are what they were
\* when the request arrived.
C12_ToggleErrorKeepsState ==
    [][(tog'.res = "error" /\ tog' # tog) =>
          /\ isBlocking' = isBlocking
          /\ proxyRunning' = proxyRunning
          /\ Resolvers(sys') = Resolvers(sys)]_vars

\* C13: every successful toggle flips isBlocking and reports the flipped
\* value, in dry-run mode too.
C13_ToggleFlips ==
    tog.res = "ok" => tog.reported = ~tog.was

\* C16: in dry-run mode the daemon's operations leave the OS resolver
\* configuration as it was when the process started and never start the
\* proxy.
C16_DryRunChangesNothing ==
    dryRun => /\ sys = bootSys
              /\ ~proxyRunning
              /\ "proxyStart" \notin done

\* C14: toggle requests are handled one after the other: no request
\* arrives at its handler while another is between its arrival and its
\* reply.
C14_TogglesSerialized ==
    Cardinality(Handling) <= 1

\* C15: at most one Configure or Restore of the Configurator is in flight
\* at any time.
C15_OneConfiguratorCallInFlight ==
    InFlight <= 1

\* ------------------------------------------------ claims: the DNS proxy

\* The name a client asked for, as the dotted lower-case string.
AskedName == toLowerCase(join(pkt.asked.labels))

\* The datagram being handled is a well-formed query of a client.
WellFormedQuery ==
    /\ pkt.outcome # "none"
    /\ pkt.query \notin MalformedDatagrams \cup PointerLoopDatagrams

\* C17: for every well-formed query the proxy synthesizes a sinkhole reply
\* if and only if the qtype is A or AAAA and the question name is blocked;
\* every other query is forwarded to an upstream with its original bytes and
\* the upstream's reply is relayed verbatim to the originating client.
C17_SinkholeIffBlockedAddressQuery ==
    WellFormedQuery =>
        LET sinkhole == pkt.asked.type \in {1, 28} /\ isBlocked(AskedName) IN
        /\ (pkt.outcome = "blocked" /\ pkt.replyTo = pkt.client) <=> sinkhole
        /\ ~sinkhole =>
            /\ pkt.outcome \in {"forwarded", "timedOut"}
            /\ pkt.upstream = pkt.query
            /\ pkt.answer # <<>> => pkt.reply = pkt.answer /\ pkt.replyTo = pkt.client

\* The reply the proxy synthesized, as a resolver decodes it: the question
\* name q behind the header and the owner name a of the record behind the
\* question.
ReplyQuestion == parseName(pkt.reply, 12)
ReplyAnswer == parseName(pkt.reply, ReplyQuestion.offset + 4)

\* The reply has the request's id, QR=1, RA=1, RCODE=0 and one question of
\* the asked type, class IN.
ReplyHeader ==
    /\ pkt.replyTo = pkt.client
    /\ readUInt16BE(pkt.reply, 0) = pkt.asked.id
    /\ readUInt8(pkt.reply, 2) \div 128 = 1
    /\ readUInt8(pkt.reply, 3) \div 128 = 1
    /\ readUInt8(pkt.reply, 3) % 16 = 0
    /\ readUInt16BE(pkt.reply, 4) = 1
    /\ readUInt16BE(pkt.reply, 8) = 0
    /\ readUInt16BE(pkt.reply, 10) = 0
    /\ ReplyQuestion.ok
    /\ ReplyQuestion.name = AskedName
    /\ readUInt16BE(pkt.reply, ReplyQuestion.offset) = pkt.asked.type
    /\ readUInt16BE(pkt.reply, ReplyQuestion.offset + 2) = 1

\* The reply has exactly one answer: A, IN, TTL 300, 127.0.0.1, owned by
\* the asked name, and nothing behind it.
ReplyOneARecord ==
    /\ readUInt16BE(pkt.reply, 6) = 1
    /\ ReplyAnswer.ok
    /\ ReplyAnswer.name = AskedName
    /\ readUInt16BE(pkt.reply, ReplyAnswer.offset) = 1
    /\ readUInt16BE(pkt.reply, ReplyAnswer.offset + 2) = 1
    /\ readUInt32BE(pkt.reply, ReplyAnswer.offset + 4) = 300
    /\ readUInt16BE(pkt.reply, ReplyAnswer.offset + 8) = 4
    /\ SubSeq(pkt.reply, ReplyAnswer.offset + 11, Len(pkt.reply)) = <<127, 0, 0, 1>>

\* C18: for every blocked name queried with qtype A, the synthesized reply
\* carries the request's transaction id, QR=1, RA=1, RCODE=0, the echoed
\* question (the question section of the request, byte for byte), and
\* exactly one answer of type A, class IN, TTL 300 and RDATA 127.0.0.1.
C18_SinkholeReplyForA ==
    (pkt.outcome = "blocked" /\ pkt.asked.type = 1) =>
        /\ ReplyHeader
        /\ SubSeq(pkt.reply, 13, ReplyQuestion.offset + 4)
               = SubSeq(pkt.query, 13, Len(pkt.query))
        /\ ReplyOneARecord

\* C19: for every blocked name queried with qtype AAAA, the reply is
\* NOERROR with an empty answer section (ANCOUNT=0): no A record answers an
\* AAAA question.
C19_SinkholeReplyForAAAA ==
    (pkt.outcome = "blocked" /\ pkt.asked.type = 28) =>
        /\ ReplyHeader
        /\ readUInt16BE(pkt.reply, 6) = 0
        /\ Len(pkt.reply) = ReplyQuestion.offset + 4

\* The name or one of its suffixes, down to the last label, is listed.
SuffixListed(name) ==
    LET parts == split(name) IN
    \E i \in 1..Len(parts) : join(SubSeq(parts, i, Len(parts))) \in blockedDomains

\* C20: a name is blocked whenever the name itself or any suffix obtained
\* by dropping leading labels, down to and including the last single label,
\* is in the blocklist; and a name none of whose suffixes is listed is not
\* blocked, so listing a longer name never blocks a shorter ancestor.
C20_BlockedIffSuffixListed ==
    WellFormedQuery => (isBlocked(AskedName) <=> SuffixListed(AskedName))

\* C21: any malformed datagram (shorter than 12 octets, a label length
\* running past the buffer, or a compression pointer off the buffer) is
\* dropped silently: no reply is sent to the client, nothing is forwarded
\* upstream, and the proxy keeps its blocklist for the later queries.
C21_MalformedDropped ==
    (pkt.outcome # "none" /\ pkt.query \in MalformedDatagrams) =>
        /\ pkt.outcome = "ignored"
        /\ pkt.upstream = <<>>
        /\ pkt.reply = <<>>
        /\ pkt.replyTo = ""

\* C23: whatever the blocklist file holds (missing, empty, oversized,
\* invalid JSON, not an array, an empty array, or no valid entry), once
\* blocklist loading has completed the proxy's blocklist is non-empty: any
\* load error installs the emergency list.
C23_BlocklistNeverEmpty ==
    /\ blocklist # "none" => blockedDomains # {}
    /\ pkt = NoPacket =>
        \A file \in BlocklistFiles :
            ~loadFromJsonWithValidation(file).success =>
                /\ daemonLoadBlocklist(file).source = "emergency"
                /\ loadBlocklist(daemonLoadBlocklist(file).domains) # {}

\* The blocklist file could not be used and the proxy holds the emergency
\* list.
C23_Witness ==
    /\ blocklist = "emergency"
    /\ blockedDomains = loadBlocklist(createEmergencyBlocklist)
    /\ blockedDomains # {}

\* ------------------------------------------------ claims: the files on disk

\* C24: the DNS backup file, the PID file and the state file are each
\* replaced atomically: if the process crashes at any point during a write,
\* a later reader sees either the complete old content or the complete new
\* content, never partial content.
C24_FilesReplacedAtomically ==
    (io.crashed /\ io.seen.text # "none") =>
        \/ io.seen.text = "json" /\ io.seen.data = io.new
        \/ io.seen.text = "json" /\ io.old.exists /\ io.seen.data = io.old.data
        \/ io.seen.text = "ENOENT" /\ ~io.old.exists

\* ------------------------------------- claims: blocking and the state file

\* C26: an enable request sets isBlocking to true only after Configure has
\* succeeded: a request that turns isBlocking on leaves the system DNS
\* configured, and one whose Configure failed leaves isBlocking false.
C26_EnableOnlyAfterConfigure ==
    [][(apiUp /\ ~dryRun /\ ~isBlocking /\ isBlocking') => isConfigured']_vars

\* C27: when the persisted state has isBlocking = true the daemon applies
\* blocking on startup: the startup never ends with the in-memory
\* isBlocking true while the proxy is stopped and the system DNS is not
\* configured.
C27_StartupAppliesPersistedBlocking ==
    (/\ pc = "returned" /\ initResult = "ok" /\ ~dryRun
     /\ sd = "idle" /\ tog = NoToggle /\ ~exited) =>
        ~(isBlocking /\ ~proxyRunning /\ ~isConfigured)

\* C28: after every successful toggle the state file's isBlocking equals
\* the in-memory isBlocking: the state is written on toggle, not only on
\* graceful shutdown.
C28_StateFileFollowsToggle ==
    (tog # NoToggle /\ tog.res = "ok" /\ sd = "idle" /\ ~exited) =>
        stateFile = OnOff(isBlocking)

\* C29: on a disable request the system DNS is restored before the proxy is
\* stopped: while a disable request is being handled there is no state in
\* which the resolvers still have loopback as primary and the proxy has
\* already been stopped.
C29_RestoreBeforeProxyStop ==
    (\E r \in Requests : /\ Handling = {r} /\ sd = "idle"
                          /\ req[r].was /\ req[r].pc \in {"stopProxy", "restore"}) =>
        ~(/\ ~proxyRunning
          /\ Resolvers(sys) # <<>>
          /\ Resolvers(sys)[1] \in LoopbackNames)

\* C30: if the API server was started, graceful shutdown stops it, and does
\* so before the DNS proxy is stopped and before the system DNS is
\* restored: daemon.shutdown() runs only when the API server is down.
C30_ApiServerStoppedFirst ==
    [][(sd = "daemonShutdown" /\ sd' = "removePidFile") => ~apiUp]_vars

\* ------------------------------------------- claims: shutdown and startup

Times(log, step) == Cardinality({i \in 1..Len(log) : log[i] = step})

\* C31: graceful shutdown is guarded: for any number and interleaving of
\* signals, uncaught exceptions and unhandled rejections, each shutdown
\* step (persist state, stop proxy, restore DNS, remove PID file) runs at
\* most once; after a failed initialize, whose catch has already restored
\* DNS, the shutdown does not restore again.
C31_ShutdownStepsOnce ==
    /\ \A step \in {"saveState", "stopProxy", "restore", "removePidFile", "exit"} :
           Times(sdLog, step) <= 1
    /\ initResult = "false" => Times(sdLog, "restore") = 0
    /\ sd # "idle" => isShuttingDown

\* A shutdown of a blocking daemon has run all its steps, each once.
C31_Witness ==
    /\ sd = "exited" /\ exitCode = 0
    /\ sdLog = <<"saveState", "stopProxy", "restore", "removePidFile", "exit">>

\* C32: the daemon writes its own PID file directly after the instance
\* check: while the Configurator is initialized, the DNS integrity check
\* runs and the emergency backup is taken, the PID file is already the
\* daemon's own.
C32_PidFileBeforeConfigurator ==
    (/\ pc \in {"dnsConfigInitialize", "checkDNSIntegrity", "restoreToAutomatic",
                "testDNSResolution", "loadBlocklist", "createEmergencyBackup"}
     /\ sd = "idle" /\ ~exited) =>
        pidFile = "own"

\* ------------------------------------------- claims: the DNS proxy, again

\* C33: a packet whose question name contains a compression-pointer loop,
\* or needs more than 20 hops, is rejected by the parser and dropped: it
\* yields no parsed name, is not classified against the blocklist, and is
\* not forwarded upstream.
C33_PointerLoopDropped ==
    (pkt.outcome # "none" /\ pkt.query \in PointerLoopDatagrams) =>
        /\ ~parse(pkt.query).ok
        /\ pkt.outcome = "ignored"
        /\ pkt.upstream = <<>>
        /\ pkt.reply = <<>>

\* C34: every received datagram increments queries by one and exactly one
\* of blocked, allowed and errors (a forwarded query of another type than A
\* and AAAA counts as allowed, a malformed packet as an error), so that
\* queries = blocked + allowed + errors.
C34_StatsAddUp ==
    pkt.outcome # "none" =>
        /\ pkt.stats.queries = 1
        /\ pkt.stats.blocked + pkt.stats.allowed + pkt.stats.errors = 1

\* C35: the forward socket and the timer of every forwarded query are
\* eventually destroyed, under every interleaving, a stop() of the proxy
\* included.
C35_ForwardEventuallyDestroyed ==
    (pkt.socket = "open") ~> (pkt.socket # "open")

\* C36: once stop() has returned no forward is outstanding, and an upstream
\* reply that arrives after it raises no error.
C36_StopCancelsForwards ==
    ~proxyRunning => (pkt.socket # "open" /\ ~pkt.threw)

\* C38: for each forwarded query at most one datagram is relayed to the
\* client.
C38_OneRelayPerForward ==
    pkt.relays <= 1

\* ---------------------------------------- claims: the Configurator, again

\* C37: Restore reports success only if the resolvers were actually brought
\* back to the backed-up or the automatic configuration: after a successful
\* Restore on Linux nothing of what Configure installed is in effect.
C37_RestoreSuccessMeansRestored ==
    (hist.op = "restore" /\ hist.ok) =>
        /\ "arsea-dns.conf" \notin sys.dropins
        /\ sys.global = <<>>
        /\ ~sys.resolvConf.arsea

\* C39: if the Backup step of Configure fails, Configure aborts and leaves
\* the interface's resolver configuration exactly as it was before the
\* call.  (A Configure that fails before the platform commands although the
\* proxy answers the probe is one whose backup failed.)
C39_BackupFailureLeavesSystem ==
    [][(/\ hist'.op = "configure" /\ ~dryRun
        /\ ~hist'.ok /\ ~hist'.applied /\ hist'.up) => sys' = sys]_vars

\* C40: for every blocked name of any valid length (1 to 253 octets) queried
\* with qtype A the sinkhole reply is built and sent: header, question and
\* answer record with the uncompressed name fit the 512-octet buffer.
C40_SinkholeReplyFits ==
    (/\ pkt.outcome = "blocked" /\ pkt.asked.type = 1
     /\ Len(join(pkt.asked.labels)) \in 1..253) =>
        /\ pkt.replyTo = pkt.client
        /\ pkt.reply = buildResponse(parse(pkt.query), BlockedIP).bytes
        /\ Len(pkt.reply) = 2 * Len(join(pkt.asked.labels)) + 34

====
